---- MODULE Spec2Model ----
(***************************************************************************)
(* Model of ME Analyzer (MEA.py): the per-image driver loop, get_struct,   *)
(* the $CPD / Extension decoder ext_anl, the $CPD and $FPT checksums and   *)
(* the manifest RSA signature check.                                        *)
(*                                                                         *)
(* The image is a sequence of bytes (0..255); Python's 0-based offsets are *)
(* kept, so byte k of the image is reading[k + 1].                         *)
(***************************************************************************)
EXTENDS Integers, Sequences, FiniteSets, TLC

VARIABLES
    \* ---- driver loop (for file_in in source) ----
    source,        \* sys.argv[1:] / mass_scan(): one descriptor per input
    param,         \* MEA_Param flags
    cur_count,     \* number of inputs the loop has started
    pc,            \* position of the driver
    f_open,        \* indexes of the inputs whose file object is open
    opened,        \* indexes of the inputs that were opened (history)
    err_stor, warn_stor, note_stor,
    check_dir,     \* inputs copied into __CHECK__ by multi_drop
    exit_code,     \* argument of sys.exit, -1 while the process runs
    oob_at,        \* input during which get_struct found an out-of-bounds read, 0 if none
    \* ---- the image under analysis ----
    reading,       \* f.read(): the bytes of the image
    variant,       \* 'ME', 'TXE' or 'SPS'
    major,         \* mn2_ftpr_hdr.Major
    \* ---- manifest RSA signature ----
    man_valid,     \* result of rsa_sig_val for the FTPR manifest (main analysis)
    mn2_sigs,      \* result of rsa_sig_val kept in the module rows (ext_anl)
    err_rep,       \* number of "please report" errors
    printed,       \* verdict lines printed by mod_anl
    \* ---- ext_anl(input_type, input_offset, file_end) ----
    input_type, input_offset,
    cpd_offset, start_man_match,
    cpd_num, cpd_valid,
    entry,         \* the loop variable of "for entry in range(0, cpd_num)"
    cpd_mod_off, cpd_mod_huff, cpd_mod_res,
    cpd_ext_offset, ext_tag, loop_break,
    cpd_mod_attr, cpd_ext_attr, cpd_ext_names, cpd_ext_hash,
    read_hi,       \* end of the highest image byte read while decoding the
                   \* Extensions of the current entry (history), 0 if none
    \* ---- $FPT header ----
    start_fw_start_match,
    fpt_part_num, fpt_version, fpt_length,
    fpt_chk_fail, fpt_chk_calc,
    \* ---- mod_anl(cpd_offset, cpd_mod_attr, cpd_ext_attr, fw_name, ...) ----
    mod_i,         \* position of "for mod in cpd_all_attr", counted from 0
    stored,        \* the files mod_anl wrote: module name, extension and data
    entry_name_bound, \* the global cpd_entry_name is assigned
    changed,       \* offset of the image byte changed after the image was built, -1 if none
    \* ---- partitions recorded for x86_unpack ----
    fpt_part_all, bpdt_part_all,
    part_files,    \* the partition files x86_unpack wrote: recorded range, bytes written
    \* ---- $FPT detection ----
    fpt_count, multi_rgn,
    \* ---- extraction folders ----
    out_dir,       \* the firmware folders under mea_dir: name, image that made it, files
    \* ---- UEFIFind Engine GUID detection ----
    tmp_files,     \* the temporary files that exist
    temp_ufpat, temp_ufout, \* the name each variable is bound to, Unbound if none
    uf_made,       \* the temporary files the step of the current image created (history)
    uf_error, found_guid,
    \* ---- the end of the firmware, from the last partition ----
    fpt_start, p_offset_last, p_end_last, eng_fw_end,
    man_tag, man_num, mod_start, mod_size_all, mod_end, mod_end_max,
    mod_turn,      \* turns of "for _ in range(0, man_num)" made so far
    \* ---- manifest anchors ----
    man_match_store, \* start offsets of the matches of man_pat, in scan order
    \* ---- extra $FPT entries ----
    fpt_step,      \* offset of the $FPT entry the scan looks at
    fpt_num_diff, fpt_num_fail,
    \* ---- uncharted partitions after the last $FPT entry ----
    p_end_last_cont, cpd_offset_last, cpd_end_last,
    walk_turn,     \* turns of the three "while" loops made so far (history)
    walked,        \* the $CPD partitions walked: start, entries, amount added (history)
    \* ---- the BPDT pass and the recovery region ----
    bpdt_matches,  \* start offsets of the matches of the BPDT header pattern
    ifwi_bpdt,     \* position of "for ifwi_bpdt in range(len(bpdt_matches))"
    s_bpdt_all, p_names_store,
    man_match,     \* start of the span of the match object, -1 for None
    rec_rgn_start,
    decoded,       \* the tables decoded: offset and "primary" or "secondary" (history)
    recorded       \* offset of the BPDT_Entry each row of bpdt_part_all came from (history)

batchVars == <<source, param, cur_count, pc, f_open, opened,
               err_stor, warn_stor, note_stor, check_dir, exit_code, oob_at>>

imageVars == <<reading, variant, major>>

rsaVars == <<man_valid, mn2_sigs, err_rep, printed>>

cpdVars == <<input_type, input_offset, cpd_offset, start_man_match, cpd_num, cpd_valid,
             entry, cpd_mod_off, cpd_mod_huff, cpd_mod_res, cpd_ext_offset, ext_tag,
             loop_break, cpd_mod_attr, cpd_ext_attr, cpd_ext_names, cpd_ext_hash, read_hi>>

fptVars == <<start_fw_start_match, fpt_part_num, fpt_version, fpt_length,
             fpt_chk_fail, fpt_chk_calc>>

modVars == <<mod_i, stored, entry_name_bound, changed>>

\* the variables of the steps that follow the decoding of the directories
unpVars == <<fpt_part_all, bpdt_part_all, part_files>>

scanVars == <<fpt_count, multi_rgn>>

ufVars == <<tmp_files, temp_ufpat, temp_ufout, uf_made, uf_error, found_guid>>

endVars == <<fpt_start, p_offset_last, p_end_last, eng_fw_end, man_tag, man_num, mod_start,
             mod_size_all, mod_end, mod_end_max, mod_turn>>

anchorVars == <<man_match_store>>

rgnVars == <<bpdt_matches, ifwi_bpdt, s_bpdt_all, p_names_store, man_match, rec_rgn_start,
             decoded, recorded>>

walkVars == <<fpt_step, fpt_num_diff, fpt_num_fail, p_end_last_cont, cpd_offset_last,
              cpd_end_last, walk_turn, walked, rgnVars>>

moreVars == <<out_dir, ufVars, endVars, anchorVars, walkVars>>

auxVars == <<modVars, unpVars, scanVars, moreVars>>

vars == <<batchVars, imageVars, rsaVars, cpdVars, fptVars, auxVars>>

\* what the driver model leaves alone
batchRest == <<imageVars, rsaVars, cpdVars, fptVars, auxVars>>

\* values of the variables a specification does not use
ImageIdle == reading = <<>> /\ variant = "ME" /\ major = 0

NoSigs == [valid |-> FALSE, dec |-> <<>>, sha |-> <<>>, error |-> TRUE]

RsaIdle == man_valid = NoSigs /\ mn2_sigs = NoSigs /\ err_rep = 0 /\ printed = <<>>

CpdIdle ==
    /\ input_type = "$CPD" /\ input_offset = 0
    /\ cpd_offset = -1 /\ start_man_match = -1
    /\ cpd_num = -1 /\ cpd_valid = FALSE
    /\ entry = 0
    /\ cpd_mod_off = 0 /\ cpd_mod_huff = 0 /\ cpd_mod_res = 0
    /\ cpd_ext_offset = 0 /\ ext_tag = 0 /\ loop_break = 0
    /\ cpd_mod_attr = <<>> /\ cpd_ext_attr = <<>>
    /\ cpd_ext_names = <<>> /\ cpd_ext_hash = <<>>
    /\ read_hi = 0

FptLocals ==
    /\ fpt_part_num = 0 /\ fpt_version = 0 /\ fpt_length = 0
    /\ fpt_chk_fail = FALSE /\ fpt_chk_calc = <<>>

FptIdle == start_fw_start_match = 0 /\ FptLocals

ModIdle == mod_i = 0 /\ stored = <<>> /\ entry_name_bound = FALSE /\ changed = -1

UnpIdle == fpt_part_all = <<>> /\ bpdt_part_all = <<>> /\ part_files = <<>>

ScanIdle == fpt_count = 0 /\ multi_rgn = FALSE

Unbound == <<>>

UfIdle ==
    /\ tmp_files = {} /\ temp_ufpat = Unbound /\ temp_ufout = Unbound
    /\ uf_made = {} /\ uf_error = FALSE /\ found_guid = ""

\* 0xFFFFFFFF in the code; here the greatest 32-bit signed number. Every
\* offset and size read from an image of the model is below it.
p_max_size == 2147483647

EndIdle ==
    /\ fpt_start = 0 /\ p_offset_last = 0 /\ p_end_last = 0 /\ eng_fw_end = p_max_size
    /\ man_tag = <<>> /\ man_num = 0 /\ mod_start = 0 /\ mod_size_all = 0
    /\ mod_end = p_max_size /\ mod_end_max = 0 /\ mod_turn = 0

RgnIdle ==
    /\ bpdt_matches = <<>> /\ ifwi_bpdt = 0 /\ s_bpdt_all = <<>> /\ p_names_store = <<>>
    /\ man_match = -1 /\ rec_rgn_start = 0 /\ decoded = <<>> /\ recorded = <<>>

WalkIdle ==
    /\ RgnIdle
    /\ fpt_step = 0 /\ fpt_num_diff = 0 /\ fpt_num_fail = FALSE
    /\ p_end_last_cont = 0 /\ cpd_offset_last = 0 /\ cpd_end_last = 0
    /\ walk_turn = 0 /\ walked = <<>>

MoreIdle == out_dir = {} /\ UfIdle /\ EndIdle /\ man_match_store = <<>> /\ WalkIdle

AuxIdle == ModIdle /\ UnpIdle /\ ScanIdle /\ MoreIdle

BatchIdle ==
    /\ source = <<>>
    /\ param = [multi |-> FALSE, mass_scan |-> FALSE, print_msg |-> FALSE]
    /\ cur_count = 0
    /\ f_open = {}
    /\ opened = {}
    /\ warn_stor = <<>>
    /\ note_stor = <<>>
    /\ check_dir = {}
    /\ exit_code = -1
    /\ oob_at = 0

batchIdleVars == <<source, param, cur_count, f_open, opened, warn_stor, note_stor,
                   check_dir, exit_code, oob_at>>

(***************************************************************************)
(* Bounds of the model                                                     *)
(***************************************************************************)
MaxInputs == 3

(***************************************************************************)
(* Python helpers                                                          *)
(***************************************************************************)
Min(a, b) == IF a < b THEN a ELSE b
Max(a, b) == IF a > b THEN a ELSE b

\* the elements of a set of numbers, in ascending order
RECURSIVE Ascending(_)
Ascending(set) ==
    IF set = {} THEN <<>>
    ELSE LET least == CHOOSE k \in set : \A j \in set : k <= j
         IN  <<least>> \o Ascending(set \ {least})

\* Python's normalisation of a slice index i against a sequence of length n
PyIndex(n, i) == IF i < 0 THEN Max(n + i, 0) ELSE Min(i, n)

\* len(s[a:b]) for a sequence of length n
PySliceLen(n, a, b) == Max(PyIndex(n, b) - PyIndex(n, a), 0)

\* s[a:b]
PySlice(s, a, b) ==
    LET lo == PyIndex(Len(s), a)
        hi == PyIndex(Len(s), b)
    IN  IF hi > lo THEN SubSeq(s, lo + 1, hi) ELSE <<>>

(***************************************************************************)
(* ctypes structure sizes                                                  *)
(***************************************************************************)
SizeofMN2_Manifest == 644

(***************************************************************************)
(* get_struct: TRUE when the read of struct_len bytes at off is refused,   *)
(* for a buffer of str_len bytes and the global file_end.                  *)
(***************************************************************************)
GetStructOob(str_len, off, struct_len, file_end) ==
    LET fit_len == Min(PySliceLen(str_len, off, off + struct_len), struct_len)
    IN  (off > file_end) \/ (fit_len < struct_len)

(***************************************************************************)
(* Driver loop                                                             *)
(***************************************************************************)
\* The inputs of a run. kind: an option word of the command line, a path that
\* is no file, or a file. man: span start of the first manifest anchor
\* (\x00$MN2 / \x00$MAN), -1 when the image holds none. pr_man: the recovery
\* markers after the anchor are found and the vendor ID is 0x8086.
\* msgs: the analysis records at least one message (the error of an invalid
\* signature, a warning or a note). me1: the image is AMT 1.x (major 1 and the
\* TekoaApp marker). found_guid: UEFIFind (-enuf) reported an Engine GUID.
\* fw_name: version, SKU, release and type of the firmware, as x86_unpack
\* formats them. parts: the partitions of the image.
FileEnd == 700
ManFits == 27
ManCut == 400

Input(k, m, p, g) ==
    [kind |-> k, file_end |-> FileEnd, man |-> m, pr_man |-> p, msgs |-> g,
     me1 |-> FALSE, found_guid |-> FALSE, fw_name |-> "11.0.0.1_CON_PRD_RGN",
     parts |-> {"FTPR"}]

Inputs ==
    {Input("option", -1, FALSE, FALSE),
     Input("missing", -1, FALSE, FALSE),
     Input("file", -1, FALSE, FALSE),
     Input("file", ManFits, FALSE, FALSE),
     Input("file", ManFits, TRUE, FALSE),
     Input("file", ManFits, TRUE, TRUE),
     Input("file", ManCut, TRUE, FALSE)}

Params ==
    [multi : BOOLEAN, mass_scan : BOOLEAN, print_msg : BOOLEAN, me11_mod_extr : {FALSE}]

Messages == \/ err_stor # <<>>
            \/ warn_stor # <<>>
            \/ note_stor # <<>>

\* multi_drop(): the files closed and the files copied
MultiDropClosed(i) == IF Messages THEN f_open \ {i} ELSE f_open
MultiDropCopied(i) == IF Messages THEN check_dir \cup {i} ELSE check_dir

BatchInit ==
    /\ \E n \in 1..MaxInputs : source \in [1..n -> Inputs]
    /\ param \in Params
    /\ cur_count = 0
    /\ pc = "next"
    /\ f_open = {}
    /\ opened = {}
    /\ err_stor = <<>>
    /\ warn_stor = <<>>
    /\ note_stor = <<>>
    /\ check_dir = {}
    /\ exit_code = -1
    /\ oob_at = 0
    /\ ImageIdle
    /\ RsaIdle
    /\ CpdIdle
    /\ FptIdle
    /\ AuxIdle

\* mea_exit(code): sys.exit at once with -extr / -msg, after the prompt otherwise
MeaExit(code) ==
    /\ exit_code' = code
    /\ pc' = IF param.print_msg THEN "exited" ELSE "press_enter"

\* for file_in in source: an option word is skipped
SkipOption ==
    /\ pc = "next"
    /\ cur_count < Len(source)
    /\ source[cur_count + 1].kind = "option"
    /\ cur_count' = cur_count + 1
    /\ err_stor' = <<>>
    /\ warn_stor' = <<>>
    /\ note_stor' = <<>>
    /\ UNCHANGED <<source, param, pc, f_open, opened, check_dir, exit_code, oob_at>>
    /\ UNCHANGED batchRest

\* a path that is no file: next input with -mass, mea_exit(0) otherwise
FileNotFound ==
    /\ pc = "next"
    /\ cur_count < Len(source)
    /\ source[cur_count + 1].kind = "missing"
    /\ cur_count' = cur_count + 1
    /\ err_stor' = <<>>
    /\ warn_stor' = <<>>
    /\ note_stor' = <<>>
    /\ IF param.mass_scan
       THEN UNCHANGED <<pc, exit_code>>
       ELSE MeaExit(0)
    /\ UNCHANGED <<source, param, f_open, opened, check_dir, oob_at>>
    /\ UNCHANGED batchRest

\* f = open(file_in, 'rb'); reading = f.read()
OpenFile ==
    /\ pc = "next"
    /\ cur_count < Len(source)
    /\ source[cur_count + 1].kind = "file"
    /\ cur_count' = cur_count + 1
    /\ err_stor' = <<>>
    /\ warn_stor' = <<>>
    /\ note_stor' = <<>>
    /\ f_open' = f_open \cup {cur_count + 1}
    /\ opened' = opened \cup {cur_count + 1}
    /\ pc' = "opened"
    /\ UNCHANGED <<source, param, check_dir, exit_code, oob_at>>
    /\ UNCHANGED batchRest

\* man_match is None: report, the note of a found GUID, multi_drop() or
\* f.close(), next input
NoManifest ==
    /\ pc = "opened"
    /\ source[cur_count].man = -1
    /\ note_stor' = IF source[cur_count].found_guid THEN Append(note_stor, "guid")
                    ELSE note_stor
    /\ IF param.multi
       THEN IF Messages \/ source[cur_count].found_guid
            THEN /\ f_open' = f_open \ {cur_count}
                 /\ check_dir' = check_dir \cup {cur_count}
            ELSE UNCHANGED <<f_open, check_dir>>
       ELSE /\ f_open' = f_open \ {cur_count}
            /\ UNCHANGED check_dir
    /\ pc' = "next"
    /\ UNCHANGED <<source, param, cur_count, opened, err_stor, warn_stor,
                   exit_code, oob_at>>
    /\ UNCHANGED batchRest

\* the anchor is a false positive (no recovery marker, or vendor ID not 8086):
\* "File does not contain Intel Engine firmware", continue
FalseAnchor ==
    /\ pc = "opened"
    /\ source[cur_count].man # -1
    /\ ~source[cur_count].pr_man
    /\ pc' = "next"
    /\ UNCHANGED <<source, param, cur_count, f_open, opened, err_stor, warn_stor,
                   note_stor, check_dir, exit_code, oob_at>>
    /\ UNCHANGED batchRest

\* mn2_ftpr_hdr = get_struct(reading, start_man_match - 0x1B, MN2_Manifest): the read fits
ReadManifest ==
    /\ pc = "opened"
    /\ source[cur_count].man # -1
    /\ source[cur_count].pr_man
    /\ ~GetStructOob(source[cur_count].file_end, source[cur_count].man - 27,
                     SizeofMN2_Manifest, source[cur_count].file_end)
    /\ pc' = "analysed"
    /\ UNCHANGED <<source, param, cur_count, f_open, opened, err_stor, warn_stor,
                   note_stor, check_dir, exit_code, oob_at>>
    /\ UNCHANGED batchRest

\* get_struct finds the read out of bounds: error stored and printed,
\* multi_drop() or f.close(), mea_exit(1)
GetStructFail ==
    /\ pc = "opened"
    /\ source[cur_count].man # -1
    /\ source[cur_count].pr_man
    /\ GetStructOob(source[cur_count].file_end, source[cur_count].man - 27,
                    SizeofMN2_Manifest, source[cur_count].file_end)
    /\ err_stor' = Append(err_stor, "out of bounds")
    /\ oob_at' = cur_count
    /\ IF param.multi
       THEN /\ f_open' = f_open \ {cur_count}
            /\ check_dir' = check_dir \cup {cur_count}
       ELSE /\ f_open' = f_open \ {cur_count}
            /\ UNCHANGED check_dir
    /\ MeaExit(1)
    /\ UNCHANGED <<source, param, cur_count, opened, warn_stor, note_stor>>
    /\ UNCHANGED batchRest

\* AMT 1.x: family and version printed, the note of a found GUID,
\* f.close(), next input
Amt1x ==
    /\ pc = "analysed"
    /\ source[cur_count].me1
    /\ note_stor' = IF source[cur_count].found_guid THEN Append(note_stor, "guid")
                    ELSE note_stor
    /\ f_open' = f_open \ {cur_count}
    /\ pc' = "next"
    /\ UNCHANGED <<source, param, cur_count, opened, err_stor, warn_stor, check_dir,
                   exit_code, oob_at>>
    /\ UNCHANGED batchRest

\* x86_unpack: a folder of that name is removed with all it holds, the
\* folder is made and the partitions of the image are stored in it
Extracted(dirs, i) ==
    {d \in dirs : d.name # source[i].fw_name}
        \cup {[name |-> source[i].fw_name, by |-> i, files |-> source[i].parts]}

\* -unp86: the messages recorded so far, x86_unpack(...), next input
Unpack86 ==
    /\ pc = "analysed"
    /\ ~source[cur_count].me1
    /\ param.me11_mod_extr
    /\ err_stor' = IF source[cur_count].msgs THEN Append(err_stor, "invalid signature")
                   ELSE err_stor
    /\ out_dir' = Extracted(out_dir, cur_count)
    /\ pc' = "next"
    /\ UNCHANGED <<source, param, cur_count, f_open, opened, warn_stor, note_stor,
                   check_dir, exit_code, oob_at>>
    /\ UNCHANGED <<imageVars, rsaVars, cpdVars, fptVars, modVars, unpVars, scanVars, ufVars,
                   endVars, anchorVars, walkVars>>

\* param.give_db_name (-dbname); the options of the specifications that
\* leave it out do not hold it
give_db_name == "give_db_name" \in DOMAIN param /\ param.give_db_name

\* end of the analysis: messages gathered, multi_drop(), f.close()
Finish ==
    /\ pc = "analysed"
    /\ ~source[cur_count].me1
    /\ ~param.me11_mod_extr
    /\ ~give_db_name
    /\ note_stor' = IF source[cur_count].msgs THEN Append(note_stor, "note") ELSE note_stor
    /\ check_dir' = IF param.multi /\ (Messages \/ source[cur_count].msgs)
                    THEN check_dir \cup {cur_count} ELSE check_dir
    /\ f_open' = f_open \ {cur_count}
    /\ pc' = "next"
    /\ UNCHANGED <<source, param, cur_count, opened, err_stor, warn_stor, exit_code, oob_at>>
    /\ UNCHANGED batchRest

\* the loop is over: mea_exit(0)
EndOfSource ==
    /\ pc = "next"
    /\ cur_count = Len(source)
    /\ MeaExit(0)
    /\ UNCHANGED <<source, param, cur_count, f_open, opened, err_stor, warn_stor,
                   note_stor, check_dir, oob_at>>
    /\ UNCHANGED batchRest

\* input("Press enter to exit"); sys.exit(code)
PressEnter ==
    /\ pc = "press_enter"
    /\ pc' = "exited"
    /\ UNCHANGED <<source, param, cur_count, f_open, opened, err_stor, warn_stor,
                   note_stor, check_dir, exit_code, oob_at>>
    /\ UNCHANGED batchRest

BatchNext ==
    \/ SkipOption
    \/ FileNotFound
    \/ OpenFile
    \/ NoManifest
    \/ FalseAnchor
    \/ ReadManifest
    \/ GetStructFail
    \/ Finish
    \/ EndOfSource
    \/ PressEnter

SpecBatch == BatchInit /\ [][BatchNext]_vars

(***************************************************************************)
(* Bytes and unbounded integers                                            *)
(***************************************************************************)
\* int.from_bytes(b, 'little')
RECURSIVE LE(_)
LE(b) == IF b = <<>> THEN 0 ELSE Head(b) + 256 * LE(Tail(b))

\* int.from_bytes(s[off:off + 4], 'little')
U32(s, off) == LE(PySlice(s, off, off + 4))

\* A Python integer that may exceed 32 bits is the sequence of its hexadecimal
\* digits, most significant first, without leading zeros: the text '%X' prints.
\* Every operation takes the values of its operands first (the one element of
\* a set of one), then works on their digits.
The(S) == CHOOSE v \in S : TRUE

\* int(text, 16) drops the leading zeros of a text.
BigStrip(x) ==
    The({LET nz == {k \in 1..Len(d) : d[k] # 0}
         IN  IF nz = {} THEN <<0>>
             ELSE SubSeq(d, CHOOSE k \in nz : \A j \in nz : k <= j, Len(d)) : d \in {x}})

\* ''.join('%0.8X' % val for val in reversed(words)) for the little-endian
\* bytes b of an array of uint32: the bytes from last to first, two digits each
HexBE(b) ==
    [k \in 1..(2 * Len(b)) |->
        LET byte == b[Len(b) - ((k - 1) \div 2)]
        IN  IF k % 2 = 1 THEN byte \div 16 ELSE byte % 16]

\* x < y
BigLess(x, y) ==
    \E a \in {x}, b \in {y} :
        LET diff == {k \in 1..Len(a) : a[k] # b[k]}
        IN  \/ Len(a) < Len(b)
            \/ /\ Len(a) = Len(b)
               /\ diff # {}
               /\ \E first \in diff : (\A j \in diff : first <= j) /\ a[first] < b[first]

\* x + y: digit p from the right takes the carry of the digits right of it
BigAdd(x, y) ==
    The({LET n == Max(Len(a), Len(b)) + 1
             u(p) == IF p <= Len(a) THEN a[Len(a) + 1 - p] ELSE 0
             v(p) == IF p <= Len(b) THEN b[Len(b) + 1 - p] ELSE 0
             carry(p) == \E j \in 1..(p - 1) :
                             /\ u(j) + v(j) >= 16
                             /\ \A i \in (j + 1)..(p - 1) : u(i) + v(i) = 15
         IN  BigStrip([k \in 1..n |->
                 LET p == n + 1 - k
                 IN  (u(p) + v(p) + (IF carry(p) THEN 1 ELSE 0)) % 16])
         : a \in {x}, b \in {y}})

\* x - y, for x >= y: digit p from the right gives the borrow of the digits right of it
BigSub(x, y) ==
    The({LET n == Len(a)
             u(p) == a[Len(a) + 1 - p]
             v(p) == IF p <= Len(b) THEN b[Len(b) + 1 - p] ELSE 0
             borrow(p) == \E j \in 1..(p - 1) :
                              /\ u(j) < v(j)
                              /\ \A i \in (j + 1)..(p - 1) : u(i) = v(i)
         IN  BigStrip([k \in 1..n |->
                 LET p == n + 1 - k
                 IN  (u(p) - v(p) - (IF borrow(p) THEN 1 ELSE 0) + 16) % 16])
         : a \in {x}, b \in {y}})

\* d * x for a digit d, by the binary digits of d
RECURSIVE BigTimes(_, _)
BigTimes(d, x) ==
    IF d = 0 THEN <<0>>
    ELSE The({IF d % 2 = 1 THEN BigAdd(BigAdd(h, h), x) ELSE BigAdd(h, h)
              : h \in {BigTimes(d \div 2, x)}})

\* x % y, for y > 0: long division, digit by digit
BigMod(x, y) ==
    The({LET Step(t, m) == The({IF BigLess(s, m) THEN s ELSE BigSub(s, m) : s \in {t}})
             \* t % n for t < 16 * n
             Reduce(t) == Step(Step(Step(Step(t, n8), n4), n2), n)
             \* the remainder r with the digits lo..hi of a taken in
             RECURSIVE ModRec(_, _, _)
             ModRec(r, lo, hi) ==
                 The({IF lo = hi THEN Reduce(BigStrip(Append(t, a[lo])))
                      ELSE ModRec(ModRec(t, lo, (lo + hi) \div 2), ((lo + hi) \div 2) + 1, hi)
                      : t \in {r}})
         IN  IF BigLess(a, n) THEN a ELSE ModRec(<<0>>, 1, Len(a))
         : a \in {x}, n \in {y}, n2 \in {BigTimes(2, y)}, n4 \in {BigTimes(4, y)},
           n8 \in {BigTimes(8, y)}})

\* (x * y) % z, for z > 0
BigMulMod(x, y, z) ==
    The({LET \* the product r with the digits lo..hi of b taken in
             RECURSIVE MulRec(_, _, _)
             MulRec(r, lo, hi) ==
                 The({IF lo = hi
                      THEN BigMod(BigAdd(BigStrip(Append(t, 0)), BigTimes(b[lo], a)), n)
                      ELSE MulRec(MulRec(t, lo, (lo + hi) \div 2), ((lo + hi) \div 2) + 1, hi)
                      : t \in {r}})
         IN  MulRec(<<0>>, 1, Len(b))
         : a \in {x}, b \in {y}, n \in {z}})

\* pow(a, e, n), for n > 0
RECURSIVE BigPowMod(_, _, _)
BigPowMod(a, e, n) ==
    IF e = 0 THEN BigMod(<<1>>, n)
    ELSE The({IF e % 2 = 1 THEN BigMulMod(BigMod(a, n), BigMulMod(h, h, n), n)
              ELSE BigMulMod(h, h, n) : h \in {BigPowMod(a, e \div 2, n)}})

(***************************************************************************)
(* Manifest RSA signature                                                  *)
(***************************************************************************)
Sha1Digits == 40
Sha256Digits == 64

\* hashlib.sha1 / hashlib.sha256, hexdigest().upper(): the hash functions are
\* outside the program; their stand-in gives a digest of the same number of
\* hexadecimal digits in which every byte of the data and its length count:
\* the odd digits mix the low halves of the bytes, the even digits the high
\* halves, each with an odd factor, so that no change of one byte keeps it.
Digest(data, ndigits) ==
    LET RECURSIVE Mix(_, _, _)
        Mix(lo, hi, j) ==
            IF lo > hi THEN 0
            ELSE IF lo = hi
            THEN ((IF j % 2 = 1 THEN data[lo] % 16 ELSE data[lo] \div 16)
                  * (2 * ((lo + j) % 4) + 1)) % 16
            ELSE (Mix(lo, (lo + hi) \div 2, j) + Mix(((lo + hi) \div 2) + 1, hi, j)) % 16
    IN  [j \in 1..ndigits |-> (Len(data) + Mix(1, Len(data), j)) % 16]

\* rsa_sig_val(man_hdr_struct, check_start), man_hdr_struct being the
\* MN2_Manifest read at check_start. dec and sha are the texts dec_hash and
\* rsa_hash; the numbers 0 and -1 the code puts there without a check are <<>>.
RsaSigVal(check_start) ==
    LET man_hdr == U32(reading, check_start + 4) * 4
        man_size == U32(reading, check_start + 24) * 4
        man_pexp == U32(reading, check_start + 384)
        man_pkey == BigStrip(HexBE(PySlice(reading, check_start + 128, check_start + 384)))
        man_sign == BigStrip(HexBE(PySlice(reading, check_start + 388, check_start + 644)))
        sha1 == (variant = "ME" /\ major < 6) \/ (variant = "SPS" /\ major < 2)
        ndigits == IF sha1 THEN Sha1Digits ELSE Sha256Digits
        dec_sign == BigPowMod(man_sign, man_pexp, man_pkey)
        dec_hash == PySlice(dec_sign, 0 - ndigits, Len(dec_sign))
        rsa_hash == Digest(PySlice(reading, check_start, check_start + 128)
                           \o PySlice(reading, check_start + man_hdr, check_start + man_size),
                           ndigits)
    IN  IF man_pkey = <<0>>
        THEN [valid |-> FALSE, dec |-> <<>>, sha |-> <<>>, error |-> TRUE]
        ELSE [valid |-> dec_hash = rsa_hash, dec |-> dec_hash, sha |-> rsa_hash,
              error |-> FALSE]

\* ---- the manifests the signature check is run on ----
MaxType == 3

Zeros(n) == [k \in 1..n |-> 0]

\* the nbytes little-endian bytes of the number d
BytesLE(d, nbytes) ==
    [k \in 1..nbytes |->
        LET lo == Len(d) - 2 * (k - 1)
        IN  (IF lo >= 1 THEN d[lo] ELSE 0) + 16 * (IF lo >= 2 THEN d[lo - 1] ELSE 0)]

\* MN2_Manifest up to RsaPubKey: Type = m0, HeaderLength = 161, Size = 163, Tag = $MN2
ManifestHead(m0) ==
    <<m0, 0, 0, 0, 161, 0, 0, 0>> \o Zeros(16) \o <<163, 0, 0, 0, 36, 77, 78, 50>> \o Zeros(96)

ProtectedData == <<9, 2, 3, 4, 5, 6, 7, 8>>

\* a manifest with its key, its signature, its protected data and 4 bytes that follow it
ManifestImage(m0, modulus, exp, sign) ==
    ManifestHead(m0) \o BytesLE(modulus, 256) \o <<exp, 0, 0, 0>> \o BytesLE(sign, 256)
        \o ProtectedData \o <<9, 9, 9, 9>>

BigModulus == <<1>> \o Zeros(100)

\* key material and signature by kind, dg being the digest of the signed bytes:
\* a PKCS-like padded digest, the bare digest, a padded digest of other data,
\* a small key with exponent 3, a zero modulus
RsaKinds == {"padded", "bare", "wrong", "small", "zero"}

SignedImage(m0, kind, ndigits) ==
    LET dg == Digest(ManifestHead(m0) \o ProtectedData, ndigits)
        padded == <<1, 15, 15, 0, 0>> \o dg
    IN  CASE kind = "padded" -> ManifestImage(m0, BigModulus, 1, padded)
          [] kind = "bare" -> ManifestImage(m0, BigModulus, 1, BigStrip(dg))
          [] kind = "wrong" -> ManifestImage(m0, BigModulus, 1,
                                             [padded EXCEPT ![Len(padded)] = (@ + 1) % 16])
          [] kind = "small" -> ManifestImage(m0, <<1, 1>>, 3, <<dg[1], dg[2]>>)
          [] kind = "zero" -> ManifestImage(m0, <<0>>, 1, padded)

\* offsets of the byte changed after signing: none, inside the first 0x80
\* bytes, inside the protected data, after the manifest
FlipOffsets == {-1, 16, 127, 645, 653}

FlipByte(img, off) == IF off < 0 THEN img ELSE [img EXCEPT ![off + 1] = (@ + 1) % 256]

RsaInit ==
    /\ \E m0 \in 0..MaxType, kind \in RsaKinds, off \in FlipOffsets,
          vm \in {<<"ME", 5>>, <<"ME", 11>>, <<"SPS", 1>>} :
          /\ variant = vm[1]
          /\ major = vm[2]
          /\ reading = FlipByte(SignedImage(m0, kind,
                                    IF vm[2] < 6 THEN Sha1Digits
                                                                  ELSE Sha256Digits), off)
    /\ pc = "rsa"
    /\ err_stor = <<>>
    /\ RsaIdle
    /\ BatchIdle
    /\ CpdIdle
    /\ FptIdle
    /\ AuxIdle

\* main analysis: man_valid = rsa_sig_val(mn2_ftpr_hdr, start_man_match - 0x1B);
\* if not man_valid[0]: the "invalid FTPR RSA Signature" error
RsaMain ==
    /\ pc = "rsa"
    /\ man_valid' = RsaSigVal(0)
    /\ IF ~man_valid'.valid
       THEN /\ err_rep' = err_rep + 1
            /\ err_stor' = Append(err_stor, "invalid FTPR RSA Signature")
       ELSE UNCHANGED <<err_rep, err_stor>>
    /\ pc' = "rsa_main_done"
    /\ UNCHANGED <<mn2_sigs, printed, imageVars, batchIdleVars, cpdVars, fptVars, auxVars>>

\* ext_anl with -unp86: mn2_sigs = rsa_sig_val(mn2_hdr, ...) for the partition
\* manifest, mn2_key_sigs = rsa_sig_val(mn2_key_hdr, ...) for a key; the
\* verdict is stored in the rows of the catalog
RsaExtAnl ==
    /\ pc = "rsa"
    /\ mn2_sigs' = RsaSigVal(0)
    /\ pc' = "rsa_rows"
    /\ UNCHANGED <<man_valid, err_rep, printed, err_stor, imageVars, batchIdleVars, cpdVars, fptVars, auxVars>>

\* mod_anl: the verdict line of a .man entry or of a .key entry
RsaModAnl ==
    /\ pc = "rsa_rows"
    /\ printed' = Append(printed, IF mn2_sigs.error THEN "UNKNOWN"
                                  ELSE IF mn2_sigs.valid THEN "VALID" ELSE "INVALID")
    /\ pc' = "rsa_printed"
    /\ UNCHANGED <<man_valid, mn2_sigs, err_rep, err_stor, imageVars, batchIdleVars, cpdVars, fptVars, auxVars>>

RsaNext == RsaMain \/ RsaExtAnl \/ RsaModAnl

SpecRsa == RsaInit /\ [][RsaNext]_vars

(***************************************************************************)
(* $CPD directory: header, entries, checksum, attribute word               *)
(***************************************************************************)
SizeofCPD_Header == 16
SizeofCPD_Entry == 24

\* sum(b) for a sequence of bytes
SumBytes(b) ==
    LET RECURSIVE Sum(_, _)
        Sum(lo, hi) == IF lo > hi THEN 0
                       ELSE IF lo = hi THEN b[lo]
                       ELSE Sum(lo, (lo + hi) \div 2) + Sum(((lo + hi) \div 2) + 1, hi)
    IN  Sum(1, Len(b))

\* the checksum byte left inside the sum
CpdChkWhole(cpd_data) == cpd_data[12] = ((256 - SumBytes(cpd_data)) % 256) % 256

\* cpd_chk(cpd_data)
cpd_chk(cpd_data) ==
    LET cpd_chk_byte == cpd_data[12]
        cpd_sum == SumBytes(cpd_data) - cpd_chk_byte
        cpd_chk_calc == ((256 - cpd_sum) % 256) % 256
    IN  cpd_chk_byte = cpd_chk_calc

\* format(w, '032b') for the uint32 held in the 4 little-endian bytes b: its
\* 32 binary digits, most significant first
Format032b(b) ==
    [j \in 1..32 |-> (b[4 - ((j - 1) \div 8)] \div (2 ^ (7 - ((j - 1) % 8)))) % 2]

\* int(text, 2)
IntBase2(text) ==
    LET RECURSIVE Val(_)
        Val(k) == IF k = 0 THEN 0 ELSE 2 * Val(k - 1) + text[k]
    IN  Val(Len(text))

\* the offset taken from the 26 digits after the reserved ones
CpdModOffWide(cpd_off_attr) == IntBase2(PySlice(cpd_off_attr, 6, Len(cpd_off_attr)))

\* the Huffman flag taken from the digit of bit 24
CpdModHuffNext(cpd_off_attr) == IntBase2(<<cpd_off_attr[8]>>)

\* the three fields of cpd_off_attr: [7:], [6] and [:6]
CpdModOff(cpd_off_attr) == IntBase2(PySlice(cpd_off_attr, 7, Len(cpd_off_attr)))
CpdModHuff(cpd_off_attr) == IntBase2(<<cpd_off_attr[7]>>)
CpdModRes(cpd_off_attr) == IntBase2(PySlice(cpd_off_attr, 0, 6))

\* a char array field of a ctypes structure: the bytes before the first NUL
CharField(b) ==
    LET nul == {k \in 1..Len(b) : b[k] = 0}
    IN  IF nul = {} THEN b ELSE SubSeq(b, 1, (CHOOSE k \in nul : \A j \in nul : k <= j) - 1)

\* pat in b, for byte strings
Contains(b, pat) ==
    \E k \in 0..(Len(b) - Len(pat)) : SubSeq(b, k + 1, k + Len(pat)) = pat

DotMan == <<46, 109, 97, 110>>
DotMet == <<46, 109, 101, 116>>
DotKey == <<46, 107, 101, 121>>
Upatch == <<117, 112, 97, 116, 99, 104>>
TagCPD == <<36, 67, 80, 68>>
AnchorMN2 == <<0, 36, 77, 78, 50>>

\* the CPD_Entry of index e and its fields
EntryHdr(e) == cpd_offset + SizeofCPD_Header + e * SizeofCPD_Entry
cpd_entry_name(e) == CharField(PySlice(reading, EntryHdr(e), EntryHdr(e) + 12))
OffsetAttrib(e) == PySlice(reading, EntryHdr(e) + 12, EntryHdr(e) + 16)
cpd_entry_size(e) == U32(reading, EntryHdr(e) + 16)
cpd_entry_offset(e) == cpd_offset + CpdModOff(Format032b(OffsetAttrib(e)))
IsManMet(e) == Contains(cpd_entry_name(e), DotMan) \/ Contains(cpd_entry_name(e), DotMet)

\* get_struct(reading, off, struct) is refused; file_end is the length of the image
Oob(off, struct_len) == GetStructOob(Len(reading), off, struct_len, Len(reading))

\* end offset of the image bytes that reading[a:b] returns, 0 if it returns none
ReadEnd(a, b) ==
    IF PyIndex(Len(reading), b) > PyIndex(Len(reading), a) THEN PyIndex(Len(reading), b) ELSE 0

\* re.compile(br'\x00\x24\x4D\x4E\x32').search(reading[from:from + 0x1000]):
\* start of the first match plus from, -1 if there is none
FindMN2(from) ==
    LET win == PySlice(reading, from, from + 4096)
        hits == {k \in 0..(Len(win) - 5) : SubSeq(win, k + 1, k + 5) = AnchorMN2}
    IN  IF hits = {} THEN -1 ELSE from + (CHOOSE k \in hits : \A j \in hits : k <= j)

\* for offset in range(man + 2, man - 0x1000, -4): the first offset - 1 at
\* which b'$CPD' in reading[offset - 1:offset + 3], -1 if there is none
FindCPD(man) ==
    LET hits == {k \in 0..1024 : /\ man + 2 - 4 * k > man - 4096
                                 /\ PySlice(reading, man + 1 - 4 * k, man + 5 - 4 * k) = TagCPD}
    IN  IF hits = {} THEN -1 ELSE man + 1 - 4 * (CHOOSE k \in hits : \A j \in hits : k <= j)

(***************************************************************************)
(* $CPD Extensions                                                         *)
(***************************************************************************)
ext_tag_all == (0..16) \cup (18..21) \cup {50}

\* ctypes.sizeof(ext_dict['CPD_Ext_%0.2X' % tag]), 0 if ext_dict has no such key
ExtLength(tag) ==
    CASE tag = 0 -> 64 [] tag = 1 -> 16 [] tag = 2 -> 12 [] tag = 3 -> 88
      [] tag = 4 -> 28 [] tag = 5 -> 70 [] tag = 6 -> 8 [] tag = 7 -> 8
      [] tag = 8 -> 8 [] tag = 9 -> 12 [] tag = 10 -> 56 [] tag = 11 -> 8
      [] tag = 12 -> 48 [] tag = 13 -> 8 [] tag = 14 -> 36 [] tag = 15 -> 52
      [] tag = 16 -> 96 [] tag = 18 -> 28 [] tag = 19 -> 180 [] tag = 20 -> 328
      [] tag = 21 -> 52 [] tag = 50 -> 16 [] OTHER -> 0

\* ctypes.sizeof(ext_dict['CPD_Ext_%0.2X_Mod' % tag]), 0 if ext_dict has no such key
ModLength(tag) ==
    CASE tag = 0 -> 12 [] tag = 1 -> 24 [] tag = 2 -> 4 [] tag = 3 -> 52
      [] tag = 6 -> 16 [] tag = 7 -> 8 [] tag = 8 -> 12 [] tag = 9 -> 24
      [] tag = 11 -> 8 [] tag = 13 -> 52 [] tag = 14 -> 68 [] tag = 15 -> 52
      [] tag = 18 -> 56 [] OTHER -> 0

\* the tags whose structure the loop reads whatever the options
TagsRead == {3, 10, 12, 15, 16, 19}
\* the tags whose trailing sub-records it reads whatever the options
TagsSubRead == {3, 15}

LoopBreakMax == 100

\* the cursor advanced by the 8 bytes of the tag and length fields only
NextExtOffsetFixed(off, cpd_ext_size) == off + 8

\* cpd_ext_offset += cpd_ext_size
NextExtOffset(off, cpd_ext_size) == off + cpd_ext_size

\* what ext_anl leaves alone
extRest == <<source, cur_count, f_open, opened, warn_stor, note_stor, check_dir, oob_at,
             param, reading, variant, major, man_valid, err_rep, printed,
             input_type, input_offset, fptVars, auxVars>>

\* the rows of cpd_mod_attr and cpd_ext_attr, in the order of the lists the
\* code appends: name, compression, encryption, offset, compressed and
\* uncompressed size, empty flag and hash. A hash is a text of hexadecimal
\* digits (values 0..15); where the code stores a number instead (0, or the
\* result of mc_chk32) the row holds its 4 bytes, least significant first.
\* The partition name, in_id, the signature verdicts and the checksum
\* verdict (the same for all rows of a directory) are not kept in the rows.
Row(name, comp, encr, off, size_comp, size_uncomp, empty, hash) ==
    [name |-> name, comp |-> comp, encr |-> encr, off |-> off,
     size_comp |-> size_comp, size_uncomp |-> size_uncomp,
     empty |-> empty, hash |-> hash]

\* reading[off], 0 past the end of the image
Byte(off) == IF off >= 0 /\ off < Len(reading) THEN reading[off + 1] ELSE 0

\* mod_hdr_p.Name.decode('utf-8') + '.met' for the sub-record at off, one
\* '.met' dropped when the name ends with two
MetName(off) ==
    LET name == CharField(PySlice(reading, off, off + 12)) \o DotMet
    IN  IF Len(name) >= 8 /\ SubSeq(name, Len(name) - 7, Len(name)) = DotMet \o DotMet
        THEN SubSeq(name, 1, Len(name) - 4) ELSE name

\* the number 0 in the hash slot of a row
NoHash == <<0, 0, 0, 0>>

\* ''.join('%0.2X' % b for b in data), as digits
HexDigits(data) ==
    [k \in 1..(2 * Len(data)) |->
        IF k % 2 = 1 THEN data[(k + 1) \div 2] \div 16 ELSE data[k \div 2] % 16]

\* ''.join('%0.8X' % val for val in reversed(Hash)) for the uint32_t*8 at off:
\* the words from last to first, each most significant byte first
HashTextLE(off) ==
    LET raw == PySlice(reading, off, off + 32)
    IN  HexDigits([k \in 1..Len(raw) |-> raw[Len(raw) + 1 - k]])

\* ''.join('%0.8X' % int.from_bytes(struct.pack('<I', val), 'big') for val in Hash)
HashTextBE(off) == HexDigits(PySlice(reading, off, off + 32))

\* mc_chk32(data): minus the sum of the 32-bit little-endian words of data,
\* modulo 2^32, as its 4 bytes
mc_chk32(data) ==
    LET RECURSIVE Col(_, _, _)
        \* sum of the bytes j, j + 4, j + 8, ... of data[lo..hi]
        Col(lo, hi, j) ==
            IF lo > hi THEN 0
            ELSE IF lo = hi THEN (IF (lo - 1) % 4 = j THEN data[lo] ELSE 0)
            ELSE Col(lo, (lo + hi) \div 2, j) + Col(((lo + hi) \div 2) + 1, hi, j)
        c0 == Col(1, Len(data), 0)
        c1 == Col(1, Len(data), 1) + (c0 \div 256)
        c2 == Col(1, Len(data), 2) + (c1 \div 256)
        c3 == Col(1, Len(data), 3) + (c2 \div 256)
        sum == <<c0 % 256, c1 % 256, c2 % 256, c3 % 256>>
        \* two's complement: 255 - byte, plus one with carry
        n0 == (255 - sum[1]) + 1
        n1 == (255 - sum[2]) + (n0 \div 256)
        n2 == (255 - sum[3]) + (n1 \div 256)
        n3 == (255 - sum[4]) + (n2 \div 256)
    IN  <<n0 % 256, n1 % 256, n2 % 256, n3 % 256>>

\* mod_data == b'\xFF' * size or cpd_entry_offset > file_end, as 0 or 1
Empty(off, size) ==
    LET mod_data == PySlice(reading, off, off + size)
    IN  IF (Len(mod_data) = size /\ \A k \in 1..Len(mod_data) : mod_data[k] = 255)
           \/ off > Len(reading)
        THEN 1 ELSE 0

\* the initial value of cpd_ext_offset for entry e: after the $MN2 header of a
\* .man when a manifest was found, the entry start of a .met, 0 otherwise
FirstExtOffset(e) ==
    IF Contains(cpd_entry_name(e), DotMan) /\ start_man_match # -1
    THEN cpd_entry_offset(e) + U32(reading, start_man_match - 27 + 4) * 4
    ELSE IF Contains(cpd_entry_name(e), DotMet) THEN cpd_entry_offset(e)
    ELSE 0

\* cpd_name = cpd_hdr.PartitionName.decode('utf-8')
cpd_name == CharField(PySlice(reading, cpd_offset + 12, cpd_offset + 16))

NameIBBP == <<73, 66, 66, 80>>
NameIBBL == <<73, 66, 66, 76>>
NameIBB == <<73, 66, 66>>
NameOBB == <<79, 66, 66>>
ibbp_bpm == <<NameIBBL, NameIBB, NameOBB>>

\* 'FF' * n and '00' * n, as digits
HexRun(digit, n) == [k \in 1..(2 * n) |-> digit]

\* Extension 0x13 at off: a row for IBBL, for IBB and for OBB whose hash is
\* not in ['00' * HashSize, 'FF' * HashSize]
IbbpRows(off) ==
    LET one(name, at) ==
            IF HashTextBE(at + 8) \in {HexRun(0, U32(reading, at + 4)),
                                       HexRun(15, U32(reading, at + 4))}
            THEN <<>>
            ELSE <<Row(name, 0, 0, 0, 0, 0, 0, HashTextBE(at + 8))>>
    IN  one(NameIBBL, off + 12) \o one(NameIBB, off + 52) \o one(NameOBB, off + 92)

\* ibbp_all once the second loop is over: the names of the entries of an
\* IBBP directory that are no .man and no .met
IbbpAll ==
    IF cpd_name = NameIBBP
    THEN {cpd_entry_name(e) : e \in {i \in 0..(cpd_num - 1) : ~IsManMet(i)}}
    ELSE {}

\* ibbp_del: for each name of ibbp_bpm that is not in ibbp_all, the indexes
\* (from 0) of the rows that bear it
IbbpDel(rows) ==
    LET of(k) == IF ibbp_bpm[k] \in IbbpAll THEN <<>>
                 ELSE Ascending({i - 1 : i \in {j \in 1..Len(rows) : rows[j].name = ibbp_bpm[k]}})
    IN  of(1) \o of(2) \o of(3)

\* for mod_index in ibbp_del : del cpd_mod_attr[mod_index]; ok is FALSE when
\* an index is past the end of the list (IndexError)
RECURSIVE DelRows(_, _)
DelRows(rows, del) ==
    IF del = <<>> THEN [ok |-> TRUE, rows |-> rows]
    ELSE IF Head(del) >= Len(rows) THEN [ok |-> FALSE, rows |-> rows]
    ELSE DelRows(SubSeq(rows, 1, Head(del)) \o SubSeq(rows, Head(del) + 2, Len(rows)),
                 Tail(del))

\* the scan for $MN2 or $CPD, mn2_hdr, mn2_sigs, cpd_hdr and the checksum
ExtStart ==
    /\ pc = "ext_start"
    /\ LET man == IF input_type = "$MN2" THEN input_offset
                  ELSE FindMN2(input_offset)
           cpd == IF input_type = "$MN2" THEN FindCPD(input_offset) ELSE input_offset
           man_oob == man # -1 /\ Oob(man - 27, SizeofMN2_Manifest)
           hdr_oob == cpd > -1 /\ Oob(cpd, SizeofCPD_Header)
           num == U32(reading, cpd + 4)
       IN  /\ start_man_match' = man
           /\ cpd_offset' = cpd
           /\ mn2_sigs' = IF man # -1 /\ ~man_oob /\ param.me11_mod_extr
                          THEN RsaSigVal(man - 27) ELSE mn2_sigs
           /\ IF man_oob \/ hdr_oob
              THEN /\ err_stor' = Append(err_stor, <<"out of bounds",
                                                     IF man_oob THEN man - 27 ELSE cpd>>)
                   /\ MeaExit(1)
                   /\ UNCHANGED <<cpd_num, cpd_valid>>
              ELSE /\ IF cpd > -1
                      THEN /\ cpd_num' = num
                           /\ cpd_valid' = cpd_chk(PySlice(reading, cpd, cpd + 16 + num * 24))
                           /\ pc' = "ext_pass1"
                      ELSE /\ pc' = "ext_ret"
                           /\ UNCHANGED <<cpd_num, cpd_valid>>
                   /\ UNCHANGED <<err_stor, exit_code>>
    /\ UNCHANGED <<entry, cpd_mod_off, cpd_mod_huff, cpd_mod_res, cpd_ext_offset, ext_tag,
                   loop_break, cpd_mod_attr, cpd_ext_attr, cpd_ext_names, cpd_ext_hash,
                   read_hi>>
    /\ UNCHANGED extRest

\* first loop over the entries: the entry header, its attribute word and, for
\* a .man or .met entry, the initial Extension offset and tag
ExtEntry ==
    /\ pc = "ext_pass1"
    /\ entry < cpd_num
    /\ IF Oob(EntryHdr(entry), SizeofCPD_Entry)
       THEN /\ err_stor' = Append(err_stor, <<"out of bounds", EntryHdr(entry)>>)
            /\ MeaExit(1)
            /\ UNCHANGED <<entry, cpd_mod_off, cpd_mod_huff, cpd_mod_res, cpd_ext_offset,
                           ext_tag, loop_break, read_hi>>
       ELSE LET cpd_off_attr == Format032b(OffsetAttrib(entry))
                first == FirstExtOffset(entry)
            IN  /\ cpd_mod_off' = CpdModOff(cpd_off_attr)
                /\ cpd_mod_huff' = CpdModHuff(cpd_off_attr)
                /\ cpd_mod_res' = CpdModRes(cpd_off_attr)
                /\ loop_break' = 0
                /\ IF IsManMet(entry)
                   THEN /\ cpd_ext_offset' = first
                        /\ ext_tag' = U32(reading, first)
                        /\ read_hi' = ReadEnd(first, first + 4)
                        /\ pc' = "ext_loop"
                        /\ UNCHANGED entry
                   ELSE /\ cpd_ext_offset' = 0
                        /\ entry' = entry + 1
                        /\ UNCHANGED <<ext_tag, read_hi, pc>>
                /\ UNCHANGED <<err_stor, exit_code>>
    /\ UNCHANGED <<cpd_offset, start_man_match, cpd_num, cpd_valid, mn2_sigs,
                   cpd_mod_attr, cpd_ext_attr, cpd_ext_names, cpd_ext_hash>>
    /\ UNCHANGED extRest

\* one turn of "while True": the Extension at cpd_ext_offset
ExtLoop ==
    /\ pc = "ext_loop"
    /\ LET off == cpd_ext_offset
           name == cpd_entry_name(entry)
           forced == loop_break + 1 > LoopBreakMax
           unknown == ext_tag \notin ext_tag_all
           cpd_ext_size == U32(reading, off + 4)
           ext_length == ExtLength(ext_tag)
           mod_length == ModLength(ext_tag)
           hdr_read == (param.me11_mod_extr /\ ext_length > 0) \/ ext_tag \in TagsRead
           sub_read == (param.me11_mod_extr /\ mod_length > 0) \/ ext_tag \in TagsSubRead
           \* turns of "while cpd_mod_offset < cpd_ext_offset + cpd_ext_size"
           sub_n == IF sub_read /\ cpd_ext_size > ext_length
                    THEN (cpd_ext_size - ext_length + mod_length - 1) \div mod_length
                    ELSE 0
           hdr_oob == hdr_read /\ Oob(off, ext_length)
           sub_oob == sub_n > 0 /\ Oob(off + ext_length + (sub_n - 1) * mod_length, mod_length)
           next_off == NextExtOffset(off, cpd_ext_size)
           at_end == next_off + 1 > cpd_entry_offset(entry) + cpd_entry_size(entry)
           msgs == IF unknown THEN Append(err_stor, <<"unimplemented", ext_tag>>)
                   ELSE err_stor
           r1 == Max(read_hi, IF unknown THEN ReadEnd(off, off + 4) ELSE 0)
           r2 == Max(r1, ReadEnd(off + 4, off + 8))
           r3 == Max(r2, IF hdr_read THEN ReadEnd(off, off + ext_length) ELSE 0)
           r4 == Max(r3, IF ~hdr_oob /\ sub_n > 0
                         THEN ReadEnd(off + ext_length, off + ext_length + sub_n * mod_length)
                         ELSE 0)
           rows == IF ext_tag = 10
                   THEN <<Row(PySlice(name, 0, -4), Byte(off + 8), Byte(off + 9), 0,
                              U32(reading, off + 16), U32(reading, off + 12), 0,
                              HashTextLE(off + 24))>>
                   ELSE IF ext_tag = 16
                   THEN <<Row(PySlice(name, 0, -4), 0, 0, 0, U32(reading, off + 32),
                              U32(reading, off + 32), 0, HashTextBE(off + 40))>>
                   ELSE IF ext_tag = 19 THEN IbbpRows(off)
                   ELSE <<>>
           hashes == IF ext_tag \in TagsSubRead
                     THEN [k \in 1..sub_n |->
                              [name |-> MetName(off + ext_length + (k - 1) * mod_length),
                               hash |-> HashTextLE(off + ext_length + (k - 1) * mod_length + 20)]]
                     ELSE <<>>
       IN  IF forced
           THEN /\ err_stor' = Append(err_stor, <<"forced break", entry>>)
                /\ loop_break' = loop_break + 1
                /\ entry' = entry + 1
                /\ pc' = "ext_pass1"
                /\ UNCHANGED <<exit_code, cpd_ext_offset, ext_tag, read_hi, cpd_mod_attr,
                               cpd_ext_attr, cpd_ext_names, cpd_ext_hash>>
           ELSE IF hdr_oob \/ sub_oob
           THEN /\ err_stor' = Append(msgs, <<"out of bounds", off>>)
                /\ loop_break' = loop_break + 1
                /\ read_hi' = r4
                /\ MeaExit(1)
                /\ UNCHANGED <<entry, cpd_ext_offset, ext_tag, cpd_mod_attr, cpd_ext_attr,
                               cpd_ext_names, cpd_ext_hash>>
           ELSE /\ err_stor' = msgs
                /\ loop_break' = loop_break + 1
                /\ cpd_mod_attr' = cpd_mod_attr \o rows
                /\ cpd_ext_hash' = cpd_ext_hash \o hashes
                /\ cpd_ext_offset' = next_off
                /\ IF at_end
                   THEN /\ cpd_ext_attr' = Append(cpd_ext_attr,
                                Row(name, 0, 0, cpd_entry_offset(entry),
                                    cpd_entry_size(entry), cpd_entry_size(entry),
                                    Empty(cpd_entry_offset(entry), cpd_entry_size(entry)),
                                    NoHash))
                        /\ cpd_ext_names' = Append(cpd_ext_names, PySlice(name, 0, -4))
                        /\ entry' = entry + 1
                        /\ read_hi' = r4
                        /\ pc' = "ext_pass1"
                        /\ UNCHANGED ext_tag
                   ELSE /\ ext_tag' = U32(reading, next_off)
                        /\ read_hi' = Max(r4, ReadEnd(next_off, next_off + 4))
                        /\ UNCHANGED <<cpd_ext_attr, cpd_ext_names, entry, pc>>
                /\ UNCHANGED exit_code
    /\ UNCHANGED <<cpd_offset, start_man_match, cpd_num, cpd_valid, mn2_sigs,
                   cpd_mod_off, cpd_mod_huff, cpd_mod_res>>
    /\ UNCHANGED extRest

\* the first loop is over; each row of cpd_ext_attr gets the hash of the
\* first entry of cpd_ext_hash that bears its name
ExtMetaDone ==
    /\ pc = "ext_pass1"
    /\ entry >= cpd_num
    /\ cpd_ext_attr' =
           [a \in 1..Len(cpd_ext_attr) |->
               LET hits == {k \in 1..Len(cpd_ext_hash) :
                               cpd_ext_hash[k].name = cpd_ext_attr[a].name}
               IN  IF hits = {} THEN cpd_ext_attr[a]
                   ELSE [cpd_ext_attr[a] EXCEPT !.hash =
                            cpd_ext_hash[CHOOSE k \in hits : \A j \in hits : k <= j].hash]]
    /\ entry' = 0
    /\ pc' = "ext_pass2"
    /\ UNCHANGED <<cpd_offset, start_man_match, cpd_num, cpd_valid, mn2_sigs, cpd_mod_off,
                   cpd_mod_huff, cpd_mod_res, cpd_ext_offset, ext_tag, loop_break,
                   cpd_mod_attr, cpd_ext_names, cpd_ext_hash, read_hi,
                   err_stor, exit_code>>
    /\ UNCHANGED extRest

\* second loop over the entries: modules, keys, microcodes and data. In an
\* IBBP directory the first row that bears the name of the entry gets its
\* size and the name joins cpd_ext_names.
ExtModule ==
    /\ pc = "ext_pass2"
    /\ entry < cpd_num
    /\ LET name == cpd_entry_name(entry)
           eoff == cpd_entry_offset(entry)
           size == cpd_entry_size(entry)
           hits == {k \in 1..Len(cpd_mod_attr) : cpd_mod_attr[k].name = name}
           mod == CHOOSE k \in hits : \A j \in hits : k <= j
           ibbp_hit == cpd_name = NameIBBP /\ hits # {}
           with_meta == ibbp_hit \/ \E k \in 1..Len(cpd_ext_names) : cpd_ext_names[k] = name
           size_comp == IF ibbp_hit THEN size ELSE cpd_mod_attr[mod].size_comp
           is_key == ~IsManMet(entry) /\ ~with_meta /\ Contains(name, DotKey)
           is_upatch == ~IsManMet(entry) /\ ~with_meta /\ ~is_key /\ Contains(name, Upatch)
           \* int.from_bytes(mod_data[0x20:0x24], 'little'); a length of 2^24 or
           \* more ends the slice reading[eoff:eoff + mc_len] at the end of the image
           mc_raw == PySlice(PySlice(reading, eoff, eoff + size), 32, 36)
           mc_len == IF Len(mc_raw) = 4 /\ mc_raw[4] # 0 THEN Len(reading)
                     ELSE LE(mc_raw)
           oob_off == IF Oob(EntryHdr(entry), SizeofCPD_Entry) THEN EntryHdr(entry)
                      ELSE IF is_key /\ Oob(eoff, SizeofMN2_Manifest) THEN eoff
                      ELSE -1
       IN  IF oob_off # -1
           THEN /\ err_stor' = Append(err_stor, <<"out of bounds", oob_off>>)
                /\ MeaExit(1)
                /\ UNCHANGED <<entry, cpd_mod_off, cpd_mod_attr, cpd_ext_names>>
           ELSE /\ cpd_mod_off' = CpdModOff(Format032b(OffsetAttrib(entry)))
                /\ cpd_ext_names' = IF ~IsManMet(entry) /\ ibbp_hit
                                    THEN Append(cpd_ext_names, name) ELSE cpd_ext_names
                /\ cpd_mod_attr' =
                       IF IsManMet(entry) THEN cpd_mod_attr
                       ELSE IF with_meta
                       THEN IF hits = {} THEN cpd_mod_attr
                            ELSE [cpd_mod_attr EXCEPT ![mod] =
                                     [@ EXCEPT !.off = eoff,
                                               !.size_comp = size_comp,
                                               !.size_uncomp = IF ibbp_hit THEN size ELSE @,
                                               !.empty = IF Empty(eoff, size_comp) = 1
                                                         THEN 1 ELSE @]]
                       ELSE Append(cpd_mod_attr,
                                   Row(name, 0, 0, eoff, size, size, Empty(eoff, size),
                                       IF is_upatch
                                       THEN mc_chk32(PySlice(reading, eoff, eoff + mc_len))
                                       ELSE NoHash))
                /\ entry' = entry + 1
                /\ UNCHANGED <<pc, err_stor, exit_code>>
    /\ UNCHANGED <<cpd_offset, start_man_match, cpd_num, cpd_valid, mn2_sigs, cpd_mod_huff,
                   cpd_mod_res, cpd_ext_offset, ext_tag, loop_break, cpd_ext_attr,
                   cpd_ext_hash, read_hi>>
    /\ UNCHANGED extRest

\* "Remove missing APL IBBP Module Attributes", then
\* return cpd_offset, cpd_mod_attr, cpd_ext_attr, ...; an index past the end
\* of cpd_mod_attr ends the run with a traceback
ExtReturn ==
    /\ pc = "ext_pass2"
    /\ entry >= cpd_num
    /\ LET left == IF IbbpAll = {} THEN [ok |-> TRUE, rows |-> cpd_mod_attr]
                   ELSE DelRows(cpd_mod_attr, IbbpDel(cpd_mod_attr))
       IN  /\ cpd_mod_attr' = left.rows
           /\ pc' = IF left.ok THEN "ext_ret" ELSE "crashed"
           /\ exit_code' = IF left.ok THEN exit_code ELSE 1
    /\ UNCHANGED <<cpd_offset, start_man_match, cpd_num, cpd_valid, mn2_sigs, entry,
                   cpd_mod_off, cpd_mod_huff, cpd_mod_res, cpd_ext_offset, ext_tag,
                   loop_break, cpd_ext_attr, cpd_ext_names, cpd_ext_hash,
                   read_hi, err_stor>>
    /\ UNCHANGED extRest

\* ---- the images ext_anl is run on ----
\* struct.pack('<I', n)
Word(n) == <<n % 256, (n \div 256) % 256, (n \div 65536) % 256, n \div 16777216>>

CpdHeader(n, chk) == TagCPD \o Word(n) \o <<1, 1, 16, chk>> \o <<70, 84, 80, 82>>

\* a CPD_Entry: Name, OffsetAttrib (4 bytes), Size, Reserved
CpdEntry(name, attr, size) == name \o Zeros(12 - Len(name)) \o attr \o Word(size) \o Zeros(4)

\* an Extension of true_len bytes whose Size field holds declared
ExtRecord(tag, declared, true_len) == Word(tag) \o Word(declared) \o Zeros(true_len - 8)

\* the first Extension of the stream: a known tag without structure read
\* (0x00), 0x03 with sub-records, 0x0A, and the unassigned tag 0x11
ExtTags == {0, 3, 10, 17}
UnknownLen == 16
TrueLen(tag) == IF tag \in ext_tag_all THEN ExtLength(tag) + ModLength(tag) ELSE UnknownLen

\* declared lengths: zero, the true one, one byte short, far past the image
BigLen == 4000
DeclaredLens(tag) == {0, TrueLen(tag), TrueLen(tag) - 1, BigLen}

CutSize == 12
PrefixLen == 8

NameFtprMan == <<70, 84, 80, 82>> \o DotMan
NameAMet == <<97>> \o DotMet

\* prefix bytes, then a directory whose first entry (FTPR.man after its
\* manifest, or a.met) holds the Extension (tag, declared) followed by a
\* well-formed 0x0A, then the entries a.met / a, or the data module b
ExtImage(with_man, tag, declared, cut, prefix) ==
    LET stream == ExtRecord(tag, declared, TrueLen(tag)) \o ExtRecord(10, 56, 56)
        n == IF with_man THEN 3 ELSE 2
        base == SizeofCPD_Header + SizeofCPD_Entry * n
        body == IF with_man THEN ManifestHead(0) \o Zeros(516) \o stream ELSE stream
        size0 == IF cut THEN Len(body) - Len(stream) + CutSize ELSE Len(body)
        entries == IF with_man
                   THEN CpdEntry(NameFtprMan, Word(base), size0)
                        \o CpdEntry(NameAMet, Word(base + Len(body)), 56)
                        \o CpdEntry(<<97>>, Word(base + Len(body) + 56), 8)
                   ELSE CpdEntry(NameAMet, Word(base), size0)
                        \o CpdEntry(<<98>>, Word(base + Len(body)), 8)
        data == IF with_man THEN body \o ExtRecord(10, 56, 56) \o [k \in 1..8 |-> 5]
                ELSE body \o [k \in 1..8 |-> 5]
    IN  [k \in 1..prefix |-> 1] \o CpdHeader(n, 0) \o entries \o data

\* the locals of ext_anl at its start
ExtLocals ==
    /\ cpd_offset = -1 /\ start_man_match = -1
    /\ cpd_num = -1 /\ cpd_valid = FALSE
    /\ entry = 0
    /\ cpd_mod_off = 0 /\ cpd_mod_huff = 0 /\ cpd_mod_res = 0
    /\ cpd_ext_offset = 0 /\ ext_tag = 0 /\ loop_break = 0
    /\ cpd_mod_attr = <<>> /\ cpd_ext_attr = <<>>
    /\ cpd_ext_names = <<>> /\ cpd_ext_hash = <<>>
    /\ read_hi = 0

DriverIdle ==
    /\ source = <<>> /\ cur_count = 0 /\ f_open = {} /\ opened = {}
    /\ warn_stor = <<>> /\ note_stor = <<>> /\ check_dir = {}
    /\ exit_code = -1 /\ oob_at = 0

ExtInit ==
    /\ \E with_man \in BOOLEAN, tag \in ExtTags, cut \in BOOLEAN, prefix \in {0, PrefixLen},
          extr \in BOOLEAN :
          \E declared \in DeclaredLens(tag),
             it \in (IF with_man THEN {"$MN2", "$CPD"} ELSE {"$CPD"}) :
              /\ reading = ExtImage(with_man, tag, declared, cut, prefix)
              /\ input_type = it
              /\ input_offset = IF it = "$CPD" THEN prefix
                                ELSE prefix + SizeofCPD_Header + 3 * SizeofCPD_Entry + 27
              /\ param = [multi |-> FALSE, mass_scan |-> FALSE, print_msg |-> FALSE,
                          me11_mod_extr |-> extr]
    /\ variant = "ME"
    /\ major = 11
    /\ pc = "ext_start"
    /\ err_stor = <<>>
    /\ ExtLocals
    /\ DriverIdle
    /\ RsaIdle
    /\ FptIdle
    /\ AuxIdle

ExtNext ==
    \/ ExtStart
    \/ ExtEntry
    \/ ExtLoop
    \/ ExtMetaDone
    \/ ExtModule
    \/ ExtReturn
    \/ PressEnter

SpecExt == ExtInit /\ [][ExtNext]_vars

(***************************************************************************)
(* Directories of plain modules: checksum and attribute words              *)
(***************************************************************************)
MaxModules == 2

\* the bytes of the varied attribute word: bits 0..7, bits 8..23 (both bytes
\* alike) and bits 24..31
AttrLow == {0, 5, 255}
AttrMid == {0, 255}
AttrHigh == (0..4) \cup {8, 16, 32, 64, 128} \cup (252..255)

\* n entries m1, m2, ...; entry k holds the attribute word w, the others 0x40
CpdEntries(n, k, w) ==
    LET one(i) == CpdEntry(<<109, 48 + i>>, IF i = k THEN w ELSE Word(64), 4)
    IN  [j \in 1..(SizeofCPD_Entry * n) |->
            one(((j - 1) \div SizeofCPD_Entry) + 1)[((j - 1) % SizeofCPD_Entry) + 1]]

\* the Checksum byte that makes the directory dir valid
GoodChecksum(dir) == (256 - ((SumBytes(dir) - dir[12]) % 256)) % 256

ChkKinds == {"good", "next", "zero"}

CpdImage(n, k, w, chk) ==
    LET dir0 == CpdHeader(n, 0) \o CpdEntries(n, k, w)
        good == GoodChecksum(dir0)
        c == CASE chk = "good" -> good
               [] chk = "next" -> (good + 1) % 256
               [] chk = "zero" -> 0
    IN  CpdHeader(n, c) \o CpdEntries(n, k, w) \o <<7, 7, 7, 7>>

CpdInit ==
    /\ \E n \in 1..MaxModules, lo \in AttrLow, mid \in AttrMid, hi \in AttrHigh,
          chk \in ChkKinds :
          \E k \in 1..n : reading = CpdImage(n, k, <<lo, mid, mid, hi>>, chk)
    /\ input_type = "$CPD"
    /\ input_offset = 0
    /\ param = [multi |-> FALSE, mass_scan |-> FALSE, print_msg |-> FALSE,
                me11_mod_extr |-> FALSE]
    /\ variant = "ME"
    /\ major = 11
    /\ pc = "ext_start"
    /\ err_stor = <<>>
    /\ ExtLocals
    /\ DriverIdle
    /\ RsaIdle
    /\ FptIdle
    /\ AuxIdle

CpdNext ==
    \/ ExtStart
    \/ ExtEntry
    \/ ExtMetaDone
    \/ ExtModule
    \/ ExtReturn

SpecCpd == CpdInit /\ [][CpdNext]_vars

\* the attribute word of the entry the first loop has just decoded
LastAttrib == OffsetAttrib(entry - 1)

\* C6: for every attribute word w the decoded offset is w mod 2^25 and the
\* decoded Huffman flag is bit 25 of w, whatever bits 26..31 hold: every word
\* that differs from w in bits 26..31 only decodes to the same offset and flag.
C6_OffsetIsLow25Bits ==
    (pc = "ext_pass1" /\ entry > 0) =>
        /\ cpd_mod_off = LastAttrib[1] + 256 * LastAttrib[2] + 65536 * LastAttrib[3]
                         + 16777216 * (LastAttrib[4] % 2)
        /\ cpd_mod_huff = (LastAttrib[4] \div 2) % 2
        /\ \A r \in 0..63 :
              LET v == Format032b([LastAttrib EXCEPT ![4] = (LastAttrib[4] % 4) + 4 * r])
              IN  CpdModOff(v) = cpd_mod_off /\ CpdModHuff(v) = cpd_mod_huff

C6_Witness ==
    /\ pc = "ext_pass1" /\ entry > 0
    /\ LastAttrib[4] >= 252
    /\ cpd_mod_res = 63
    /\ cpd_mod_off = 33554431

\* C7 as stated: the word 0x01000005 decodes to offset 5 with Huffman flag 0
\* and the word 0x02000005 to offset 5 with Huffman flag 1.
C7_ExampleWords ==
    (pc = "ext_pass1" /\ entry > 0) =>
        /\ LastAttrib = <<5, 0, 0, 1>> => (cpd_mod_off = 5 /\ cpd_mod_huff = 0)
        /\ LastAttrib = <<5, 0, 0, 2>> => (cpd_mod_off = 5 /\ cpd_mod_huff = 1)

\* C7 amended: the word 0x01000005 has bit 24 set, which belongs to the offset:
\* it decodes to offset 0x1000005 with Huffman flag 0; the word 0x02000005
\* decodes to offset 5 with Huffman flag 1.
C7_ExampleWordsAmended ==
    (pc = "ext_pass1" /\ entry > 0) =>
        /\ LastAttrib = <<5, 0, 0, 1>> => (cpd_mod_off = 16777221 /\ cpd_mod_huff = 0)
        /\ LastAttrib = <<5, 0, 0, 2>> => (cpd_mod_off = 5 /\ cpd_mod_huff = 1)

C7_Witness ==
    /\ pc = "ext_pass1" /\ entry > 0
    /\ LastAttrib = <<5, 0, 0, 1>>
    /\ cpd_mod_huff = 0

\* the bytes of the directory: header and cpd_num entries
Directory == PySlice(reading, cpd_offset, cpd_offset + 16 + cpd_num * 24)

\* C8: cpd_chk finds the directory valid exactly when its byte 0x0B equals
\* (0x100 - sum of all the other bytes) mod 0x100; exactly one value of that
\* byte validates a given directory content.
C8_ChecksumByte ==
    (pc = "ext_pass1" /\ entry = 0) =>
        LET others == SumBytes(Directory) - Directory[12]
        IN  /\ cpd_valid <=> (Directory[12] = (256 - (others % 256)) % 256)
            /\ Cardinality({c \in 0..255 : cpd_chk([Directory EXCEPT ![12] = c])}) = 1

C8_Witness ==
    /\ pc = "ext_pass1" /\ entry = 0
    /\ cpd_valid
    /\ Directory[12] # 0
    /\ Len(Directory) = SizeofCPD_Header + SizeofCPD_Entry * cpd_num

(***************************************************************************)
(* $FPT header checksum                                                    *)
(***************************************************************************)
SizeofFPT_Pre_Header == 16
SizeofFPT_Header == 32
SizeofFPT_Entry == 32

\* '0x%0.2X' % n for a byte n: its two hexadecimal digits
Hex2(n) == <<n \div 16, n % 16>>

\* the variants and versions whose version 0x20 / length 0x20 table leaves the
\* ROMB instructions out of the checksum
RombExcluded == (variant = "ME" /\ major >= 11) \/ (variant = "TXE" /\ major >= 3)
                \/ (variant = "SPS" /\ major >= 4)

\* the variants and versions whose checksum is a placeholder
ChecksumIgnored == (variant = "ME" /\ major >= 12) \/ (variant = "TXE" /\ major >= 3)

\* the checksum taken over the header and the partition entries that follow it
FptChkCalcEntries(img, start, version, length) ==
    LET fpt_chk_byte == img[start + 11 + 1]
        num == U32(img, start + 4)
        chk_sum == SumBytes(PySlice(img, start, start + 32 + 32 * num)) - fpt_chk_byte
    IN  Hex2(((256 - chk_sum) % 256) % 256)

\* fpt_chk_calc for the image img with its $FPT header at start
FptChkCalc(img, start, version, length) ==
    LET fpt_chk_start == IF version = 32 /\ length = 32 /\ RombExcluded THEN 16 ELSE 0
        fpt_from == IF version = 16 /\ length = 32 THEN start ELSE start - 16
        fpt_chk_byte == img[start + 11 + 1]
        chk_sum == SumBytes(PySlice(img, fpt_from + fpt_chk_start,
                                    fpt_from + fpt_chk_start + length)) - fpt_chk_byte
    IN  Hex2(((256 - chk_sum) % 256) % 256)

\* what the checksum step leaves alone
fptRest == <<source, cur_count, f_open, opened, warn_stor, note_stor, check_dir, oob_at,
             param, reading, variant, major, rsaVars, cpdVars, start_fw_start_match,
             auxVars>>

\* fpt_hdr = get_struct(reading, start_fw_start_match, FPT_Header) and its fields
FptHeader ==
    /\ pc = "fpt"
    /\ IF Oob(start_fw_start_match, SizeofFPT_Header)
       THEN /\ err_stor' = Append(err_stor, <<"out of bounds", start_fw_start_match>>)
            /\ MeaExit(1)
            /\ UNCHANGED <<fpt_part_num, fpt_version, fpt_length>>
       ELSE /\ fpt_part_num' = U32(reading, start_fw_start_match + 4)
            /\ fpt_version' = reading[start_fw_start_match + 8 + 1]
            /\ fpt_length' = reading[start_fw_start_match + 10 + 1]
            /\ pc' = "fpt_entries"
            /\ UNCHANGED <<err_stor, exit_code>>
    /\ UNCHANGED <<fpt_chk_fail, fpt_chk_calc>>
    /\ UNCHANGED fptRest

\* for i in range(0, fpt_part_num): fpt_entry = get_struct(reading, fpt_step,
\* FPT_Entry); fpt_step += 0x20. What the loop derives from the entries
\* (partition names, recovery region, last partition) is not kept.
FptEntries ==
    /\ pc = "fpt_entries"
    /\ LET fpt_at == start_fw_start_match + SizeofFPT_Header
           last == fpt_at + (fpt_part_num - 1) * SizeofFPT_Entry
       IN  IF fpt_part_num > 0 /\ Oob(last, SizeofFPT_Entry)
           THEN /\ err_stor' = Append(err_stor, <<"out of bounds", last>>)
                /\ MeaExit(1)
           ELSE /\ pc' = "fpt_chk"
                /\ UNCHANGED <<err_stor, exit_code>>
    /\ UNCHANGED <<fpt_part_num, fpt_version, fpt_length, fpt_chk_fail, fpt_chk_calc>>
    /\ UNCHANGED fptRest

\* the pre-header read, the checksum and the placeholder rule
FptChecksum ==
    /\ pc = "fpt_chk"
    /\ LET pre_read == fpt_version = 32 /\ (fpt_length = 48 \/ (fpt_length = 32 /\ RombExcluded))
           fpt_chk_file == Hex2(reading[start_fw_start_match + 11 + 1])
           calc == FptChkCalc(reading, start_fw_start_match, fpt_version, fpt_length)
       IN  IF pre_read /\ Oob(start_fw_start_match - 16, SizeofFPT_Pre_Header)
           THEN /\ err_stor' = Append(err_stor, <<"out of bounds", start_fw_start_match - 16>>)
                /\ MeaExit(1)
                /\ UNCHANGED <<fpt_chk_fail, fpt_chk_calc>>
           ELSE /\ fpt_chk_calc' = calc
                /\ fpt_chk_fail' = ((calc # fpt_chk_file) /\ ~ChecksumIgnored)
                /\ pc' = "fpt_done"
                /\ UNCHANGED <<err_stor, exit_code>>
    /\ UNCHANGED <<fpt_part_num, fpt_version, fpt_length>>
    /\ UNCHANGED fptRest

\* ---- the tables the checksum is computed on ----
MaxPartitions == 2

TagFPT == <<36, 70, 80, 84>>

FptLayouts == {<<32, 48>>, <<32, 32>>, <<16, 32>>}
FptVariants == {<<"ME", 8>>, <<"ME", 11>>, <<"ME", 12>>, <<"TXE", 3>>, <<"SPS", 4>>}
\* the byte that fills the ROMB instructions, the byte that fills the entries
PreBytes == {0, 3}
EntryBytes == {0, 9}
\* offset of the header in the image
FptOffsets == {0, 16}

FptHeaderBytes(n, version, length, chk) ==
    TagFPT \o Word(n) \o <<version, 16, length, chk>> \o [k \in 1..20 |-> 1]

FptEntryBytes(fill) == <<70, 84, 80, 82, 255, 255, 255, 255>> \o [k \in 1..24 |-> fill]

FptBody(n, version, length, chk, fill) ==
    FptHeaderBytes(n, version, length, chk)
        \o [j \in 1..(SizeofFPT_Entry * n) |-> FptEntryBytes(fill)[((j - 1) % SizeofFPT_Entry) + 1]]
        \o [k \in 1..32 |-> 255]

\* the checksum the table is built with: over the ROMB instructions and the
\* header for length 0x30, over the header for length 0x20
FptGood(pre, n, version, length) ==
    LET hdr == SumBytes(FptHeaderBytes(n, version, length, 0))
        rom == IF length = 48 THEN 16 * pre ELSE 0
    IN  (256 - ((hdr + rom) % 256)) % 256

FptImage(at, pre, n, version, length, good, fill) ==
    LET g == FptGood(pre, n, version, length)
        chk == IF good THEN g ELSE (g + 1) % 256
    IN  [k \in 1..at |-> pre] \o FptBody(n, version, length, chk, fill)

FptInit ==
    /\ \E at \in FptOffsets, pre \in PreBytes, n \in 1..MaxPartitions, lay \in FptLayouts,
          good \in BOOLEAN, fill \in EntryBytes, vm \in FptVariants :
          /\ reading = FptImage(at, pre, n, lay[1], lay[2], good, fill)
          /\ start_fw_start_match = at
          /\ variant = vm[1]
          /\ major = vm[2]
    /\ param = [multi |-> FALSE, mass_scan |-> FALSE, print_msg |-> FALSE,
                me11_mod_extr |-> FALSE]
    /\ pc = "fpt"
    /\ err_stor = <<>>
    /\ FptLocals
    /\ input_type = "$CPD" /\ input_offset = 0
    /\ ExtLocals
    /\ DriverIdle
    /\ RsaIdle
    /\ AuxIdle

FptNext ==
    \/ FptHeader
    \/ FptEntries
    \/ FptChecksum
    \/ PressEnter

SpecFpt == FptInit /\ [][FptNext]_vars

\* the first and the last byte of the partition entries
EntriesFirst == start_fw_start_match + SizeofFPT_Header
EntriesLast == EntriesFirst + fpt_part_num * SizeofFPT_Entry - 1

\* a byte of reading changed: the byte at offset o gets the next value
Changed(o) == [reading EXCEPT ![o + 1] = (@ + 1) % 256]

\* the sum the flag is tested against, over the bytes lo..hi-1 of the image
\* less the checksum byte
FptExpected(lo, hi) ==
    Hex2((256 - ((SumBytes(SubSeq(reading, lo + 1, hi))
                  - reading[start_fw_start_match + 12]) % 256)) % 256)

\* C9 as stated: the checksum is taken over the header together with all
\* NumPartitions entries, less the checksum byte; the table is flagged exactly
\* when it differs from the checksum byte; so a change to a byte of any
\* partition entry changes the computed checksum.
C9_ChecksumCoversEntries ==
    (pc = "fpt_done" /\ start_fw_start_match >= 16) =>
        /\ fpt_chk_fail <=> (fpt_chk_calc # Hex2(reading[start_fw_start_match + 12]))
        /\ \A o \in EntriesFirst..EntriesLast :
              FptChkCalc(Changed(o), start_fw_start_match, fpt_version, fpt_length)
                  # fpt_chk_calc

\* C9 amended: for a table at offset >= 0x10 the checksum is taken over Length
\* bytes, less the checksum byte: the 16-byte pre-header and the header for
\* version 0x20 / length 0x30, the header alone for version 0x20 / length 0x20
\* of ME >= 11, TXE >= 3, SPS >= 4 and for version 0x10 / length 0x20, and
\* otherwise the Length bytes that start 16 bytes before the header. The table
\* is flagged exactly when that value differs from the checksum byte and the
\* firmware is neither ME >= 12 nor TXE >= 3. With a Length of 0x20 or 0x30 no
\* partition entry lies in the summed bytes: a change to a byte of an entry
\* leaves the checksum as it is.
C9_ChecksumCoversHeader ==
    (pc = "fpt_done" /\ start_fw_start_match >= 16) =>
        LET start == start_fw_start_match
            lo == CASE fpt_version = 32 /\ fpt_length = 48 -> start - 16
                    [] fpt_version = 32 /\ fpt_length = 32 /\ RombExcluded -> start
                    [] fpt_version = 16 /\ fpt_length = 32 -> start
                    [] OTHER -> start - 16
        IN  /\ fpt_chk_calc = FptExpected(lo, lo + fpt_length)
            /\ fpt_chk_fail <=> (/\ fpt_chk_calc # Hex2(reading[start + 12])
                                 /\ ~(variant = "ME" /\ major >= 12)
                                 /\ ~(variant = "TXE" /\ major >= 3))
            /\ \A o \in EntriesFirst..EntriesLast :
                  FptChkCalc(Changed(o), start, fpt_version, fpt_length) = fpt_chk_calc

C9_Witness ==
    /\ pc = "fpt_done" /\ start_fw_start_match >= 16
    /\ fpt_version = 32 /\ fpt_length = 48
    /\ fpt_part_num = MaxPartitions
    /\ ~fpt_chk_fail
    /\ variant = "ME" /\ major = 8
    /\ fpt_chk_calc # <<0, 0>>

(***************************************************************************)
(* mod_anl: the modules of a directory are stored, decompressed and their  *)
(* hashes compared                                                         *)
(***************************************************************************)
\* hashlib.sha256(data).hexdigest().upper()
sha_256(data) == Digest(data, Sha256Digits)

\* the LZMA header as Intel stores it
LzmaMagic == <<54, 0, 64, 0, 0>>

\* mod_data[:0xE] + mod_data[0x11:] when the module starts with the header
\* and the 3 bytes at 0xE are zero
LzmaStrip(mod_data) ==
    IF PySlice(mod_data, 0, 5) = LzmaMagic /\ PySlice(mod_data, 14, 17) = <<0, 0, 0>>
    THEN PySlice(mod_data, 0, 14) \o PySlice(mod_data, 17, Len(mod_data))
    ELSE mod_data

\* lzma.LZMADecompressor().decompress(data): the decoder is outside the
\* program. Its stand-in keeps what the code depends on: a 13-byte header
\* whose properties byte is below 225 (LZMAError otherwise), a coded stream
\* whose first byte is 0 (LZMAError otherwise), the same data for the same
\* stream and other data for another stream. ok = FALSE is the exception.
LzmaPropsMax == 225
LzmaHeaderLen == 13

LzmaDecompress(data) ==
    IF Len(data) >= 1 /\ data[1] >= LzmaPropsMax THEN [ok |-> FALSE, data |-> <<>>]
    ELSE IF Len(data) > LzmaHeaderLen /\ data[LzmaHeaderLen + 1] # 0
    THEN [ok |-> FALSE, data |-> <<>>]
    ELSE [ok |-> TRUE,
          data |-> [k \in 1..Max(Len(data) - LzmaHeaderLen - 1, 0) |->
                       (data[LzmaHeaderLen + 1 + k] + 1) % 256]]

\* huffman11.huffman_decompress(data, size_comp, size_uncomp): the decoder is
\* outside the program. Its stand-in reads each byte as a code of a
\* dictionary of HuffmanCodes codes and raises on a code the dictionary
\* does not hold.
HuffmanCodes == 128

HuffmanDecompress(data, size_comp, size_uncomp) ==
    IF \E k \in 1..Len(data) : data[k] >= HuffmanCodes THEN [ok |-> FALSE, data |-> <<>>]
    ELSE [ok |-> TRUE, data |-> [k \in 1..Len(data) |-> 2 * data[k] + 1]]

\* cpd_all_attr = cpd_ext_attr + cpd_mod_attr
cpd_all_attr == cpd_ext_attr \o cpd_mod_attr

\* what mod_anl leaves alone
modRest == <<source, param, cur_count, f_open, opened, warn_stor, note_stor, check_dir,
             oob_at, imageVars, man_valid, mn2_sigs, err_rep,
             input_type, input_offset, cpd_offset, start_man_match, cpd_num, cpd_valid,
             entry, cpd_mod_off, cpd_mod_huff, cpd_mod_res,
             cpd_mod_attr, cpd_ext_attr, cpd_ext_names, cpd_ext_hash, read_hi, fptVars,
             unpVars, scanVars, moreVars>>

\* the verdict of a signature check: mn2_error, then mn2_valid
SigVerdict(sigs) ==
    IF sigs.error THEN "UNKNOWN" ELSE IF sigs.valid THEN "VALID" ELSE "INVALID"

HashVerdict(mod_hash, mea_hashes) == IF mod_hash \in mea_hashes THEN "VALID" ELSE "INVALID"

\* the decompressed data with the missing end padding added
LzmaPadded(data, mod_size_uncomp) ==
    data \o [k \in 1..Max(mod_size_uncomp - Len(data), 0) |-> 255]

\* one turn of "for mod in cpd_all_attr" for a module that is not skipped:
\* the files it leaves in the folder and the line it prints about the module
ModResult(mod) ==
    LET mod_data == PySlice(reading, mod.off, mod.off + mod.size_comp)
        is_meta == Contains(mod.name, DotMan) \/ Contains(mod.name, DotMet)
        first == [name |-> mod.name,
                  ext |-> IF is_meta THEN "" ELSE <<"mod", "huff", "lzma">>[mod.comp + 1],
                  data |-> IF mod.comp = 2 THEN LzmaStrip(mod_data) ELSE mod_data]
        lz == LzmaDecompress(first.data)
        hf == HuffmanDecompress(first.data, mod.size_comp, mod.size_uncomp)
    IN  IF mod.encr = 1
        THEN [files |-> <<[first EXCEPT !.ext = "encr"]>>, line |-> <<"Hash", "UNKNOWN">>]
        ELSE IF mod.comp = 0
        THEN IF Contains(mod.name, DotMan)
             THEN [files |-> <<first>>, line |-> <<"RSA", SigVerdict(mn2_sigs)>>]
             ELSE IF Contains(mod.name, DotMet)
             THEN [files |-> <<first>>,
                   line |-> <<"Hash", HashVerdict(mod.hash, {sha_256(mod_data)})>>]
             ELSE IF Contains(mod.name, DotKey)
             THEN [files |-> <<[first EXCEPT !.ext = "key"]>>,
                   line |-> <<"RSA", SigVerdict(RsaSigVal(mod.off))>>]
             ELSE IF Contains(mod.name, Upatch)
             THEN [files |-> <<[first EXCEPT !.ext = "bin"]>>,
                   line |-> <<"Checksum", IF mod.hash = NoHash THEN "VALID" ELSE "INVALID">>]
             ELSE IF mod.hash = NoHash
             THEN [files |-> <<[first EXCEPT !.ext = ""]>>, line |-> <<"Hash", "UNKNOWN">>]
             ELSE [files |-> <<first>>,
                   line |-> <<"Hash", HashVerdict(mod.hash, {sha_256(mod_data)})>>]
        ELSE IF mod.comp = 2
        THEN IF lz.ok
             THEN [files |-> <<first, [first EXCEPT !.ext = "mod",
                                         !.data = LzmaPadded(lz.data, mod.size_uncomp)]>>,
                   line |-> <<"Hash",
                              HashVerdict(mod.hash,
                                          {sha_256(mod_data),
                                           sha_256(LzmaPadded(lz.data, mod.size_uncomp))})>>]
             ELSE [files |-> <<first>>, line |-> <<"Decompression", "FAILED">>]
        ELSE IF hf.ok
             THEN [files |-> <<first, [first EXCEPT !.ext = "mod", !.data = hf.data]>>,
                   line |-> <<"Hash", HashVerdict(mod.hash, {sha_256(hf.data)})>>]
             ELSE [files |-> <<first>>, line |-> <<"Decompression", "FAILED">>]

\* mod_anl starts: nothing to do without a directory; the lists of details
\* are built and the attributes of the parent partition are taken from the
\* first row, which raises IndexError for a compression above 2, an
\* encryption or empty flag above 1 and a directory without rows
ModStart ==
    /\ pc = "ext_ret"
    /\ IF cpd_offset = -1
       THEN /\ pc' = "mod_done"
            /\ UNCHANGED exit_code
       ELSE IF cpd_all_attr = <<>>
               \/ \E k \in 1..Len(cpd_all_attr) :
                      cpd_all_attr[k].comp > 2 \/ cpd_all_attr[k].encr > 1
       THEN /\ pc' = "crashed"
            /\ exit_code' = 1
       ELSE /\ pc' = "mod_loop"
            /\ UNCHANGED exit_code
    /\ mod_i' = 0
    /\ stored' = <<>>
    /\ UNCHANGED <<printed, err_stor, cpd_ext_offset, ext_tag, loop_break,
                   entry_name_bound, changed>>
    /\ UNCHANGED modRest

\* one turn of "for mod in cpd_all_attr": an empty or missing module is
\* skipped; the Extensions of a key are then read from its file
ModStore ==
    /\ pc = "mod_loop"
    /\ mod_i < Len(cpd_all_attr)
    /\ LET mod == cpd_all_attr[mod_i + 1]
           res == ModResult(mod)
           key_data == PySlice(reading, mod.off, mod.off + mod.size_comp)
           is_key == /\ mod.encr = 0 /\ mod.comp = 0
                     /\ ~Contains(mod.name, DotMan) /\ ~Contains(mod.name, DotMet)
                     /\ Contains(mod.name, DotKey)
       IN  IF mod.empty = 1
           THEN /\ mod_i' = mod_i + 1
                /\ UNCHANGED <<stored, printed, pc, cpd_ext_offset, ext_tag, loop_break>>
           ELSE /\ stored' = stored \o res.files
                /\ printed' = Append(printed, <<mod.name>> \o res.line)
                /\ IF is_key
                   THEN /\ cpd_ext_offset' = U32(key_data, 4) * 4
                        /\ ext_tag' = U32(key_data, U32(key_data, 4) * 4)
                        /\ loop_break' = 0
                        /\ pc' = "key_loop"
                        /\ UNCHANGED mod_i
                   ELSE /\ mod_i' = mod_i + 1
                        /\ UNCHANGED <<pc, cpd_ext_offset, ext_tag, loop_break>>
    /\ UNCHANGED <<err_stor, exit_code, entry_name_bound, changed>>
    /\ UNCHANGED modRest

\* the loop over cpd_all_attr is over, mod_anl returns
ModReturn ==
    /\ pc = "mod_loop"
    /\ mod_i >= Len(cpd_all_attr)
    /\ pc' = "mod_done"
    /\ UNCHANGED <<mod_i, stored, printed, err_stor, exit_code,
                   cpd_ext_offset, ext_tag, loop_break, entry_name_bound, changed>>
    /\ UNCHANGED modRest

\* one turn of the "while True" loop over the Extensions of a key, read from
\* the stored key file. The two messages name cpd_entry_name, a variable
\* mod_anl does not assign: it is a global only after the main analysis sized
\* an uncharted last $FPT partition, and raises NameError otherwise.
KeyLoop ==
    /\ pc = "key_loop"
    /\ LET mod == cpd_all_attr[mod_i + 1]
           key_data == PySlice(reading, mod.off, mod.off + mod.size_comp)
           off == cpd_ext_offset
           forced == loop_break + 1 > LoopBreakMax
           unknown == ext_tag \notin ext_tag_all
           tag == IF unknown THEN U32(reading, off) ELSE ext_tag
           cpd_ext_size == U32(key_data, off + 4)
           ext_length == ExtLength(tag)
           mod_length == ModLength(tag)
           sub_n == IF ext_length > 0 /\ mod_length > 0 /\ cpd_ext_size > ext_length
                    THEN (cpd_ext_size - ext_length + mod_length - 1) \div mod_length
                    ELSE 0
           hdr_oob == ext_length > 0
                      /\ GetStructOob(Len(key_data), off, ext_length, Len(reading))
           sub_oob == sub_n > 0
                      /\ GetStructOob(Len(key_data), off + ext_length + (sub_n - 1) * mod_length,
                                      mod_length, Len(reading))
           next_off == NextExtOffset(off, cpd_ext_size)
           msgs == IF unknown THEN Append(err_stor, <<"unimplemented", ext_tag>>)
                   ELSE err_stor
       IN  IF (forced \/ unknown) /\ ~entry_name_bound
           THEN /\ pc' = "crashed"
                /\ exit_code' = 1
                /\ loop_break' = loop_break + 1
                /\ UNCHANGED <<err_stor, mod_i, cpd_ext_offset, ext_tag>>
           ELSE IF forced
           THEN /\ err_stor' = Append(err_stor, <<"forced break", mod_i>>)
                /\ loop_break' = loop_break + 1
                /\ mod_i' = mod_i + 1
                /\ pc' = "mod_loop"
                /\ UNCHANGED <<exit_code, cpd_ext_offset, ext_tag>>
           ELSE IF hdr_oob \/ sub_oob
           THEN /\ err_stor' = Append(msgs, <<"out of bounds", off>>)
                /\ loop_break' = loop_break + 1
                /\ MeaExit(1)
                /\ UNCHANGED <<mod_i, cpd_ext_offset, ext_tag>>
           ELSE /\ err_stor' = msgs
                /\ loop_break' = loop_break + 1
                /\ cpd_ext_offset' = next_off
                /\ IF next_off + 1 > Len(key_data)
                   THEN /\ mod_i' = mod_i + 1
                        /\ ext_tag' = tag
                        /\ pc' = "mod_loop"
                   ELSE /\ ext_tag' = U32(key_data, next_off)
                        /\ UNCHANGED <<mod_i, pc>>
                /\ UNCHANGED exit_code
    /\ UNCHANGED <<stored, printed, entry_name_bound, changed>>
    /\ UNCHANGED modRest

\* ---- the directories mod_anl is run on ----
\* the 32 bytes of a uint32_t*8 whose text, words from last to first, is digits
HashBytesLE(digits) ==
    [k \in 1..32 |-> 16 * digits[2 * (32 - k) + 1] + digits[2 * (32 - k) + 2]]

\* CPD_Ext_0A: Tag, Size, Compression, Encryption, Reserved, SizeUncomp,
\* SizeComp, DEV_ID, VEN_ID, Hash
Ext0A(comp, size_uncomp, size_comp, digits) ==
    Word(10) \o Word(56) \o <<comp, 0, 0, 0>> \o Word(size_uncomp) \o Word(size_comp)
        \o <<0, 0, 134, 128>> \o HashBytesLE(digits)

\* CPD_Ext_03_Mod: Name, Type, Compression, Reserved, MetadataSize, MetadataHash
Ext03Mod(name, met) ==
    name \o Zeros(12 - Len(name)) \o <<0, 0, 255, 255>> \o Word(Len(met))
        \o HashBytesLE(sha_256(met))

\* CPD_Ext_03 with the sub-records of two metadata entries
Ext03(met_a, met_b) ==
    Word(3) \o Word(192) \o <<70, 84, 80, 82>> \o Zeros(76)
        \o Ext03Mod(<<97>>, met_a) \o Ext03Mod(<<98>>, met_b)

PlainLen == 20

\* the plain bytes of a module, and those of the other module
PlainA == [k \in 1..PlainLen |-> 10 + k]
PlainB == [k \in 1..PlainLen |-> 40 + k]

\* a module as stored: uncompressed, Huffman (each byte a code), or LZMA
\* (Intel header, 3 zero bytes at 0xE, then the coded stream)
Payload(comp) ==
    CASE comp = 0 -> PlainA
      [] comp = 1 -> [k \in 1..PlainLen |-> 5 + k]
      [] comp = 2 -> LzmaMagic \o Word(PlainLen) \o Zeros(4) \o <<0, 0, 0, 0>>
                         \o [k \in 1..PlainLen |-> 10 + k]

\* what the decoders make of the stored module
Unpacked(comp) ==
    CASE comp = 0 -> Payload(0)
      [] comp = 1 -> HuffmanDecompress(Payload(1), PlainLen, PlainLen).data
      [] comp = 2 -> LzmaDecompress(LzmaStrip(Payload(2))).data

\* the byte of the stored module that is changed and its new value: none, the
\* first byte (to a value no LZMA header starts with, and to another), the
\* byte the coded stream of an LZMA module starts with, a later byte
Flips == {<<-1, 0>>, <<0, 255>>, <<0, 55>>, <<13, 1>>, <<PlainLen - 1, 2>>}

\* the last entry of the directory, by class
KeyExtKinds == {"good", "zero", "unknown"}

KeyBytes(kind) ==
    ManifestHead(0) \o Zeros(516)
        \o (CASE kind = "good" -> ExtRecord(14, 104, 104)
              [] kind = "zero" -> ExtRecord(14, 0, 104)
              [] kind = "unknown" -> ExtRecord(17, 16, 16) \o ExtRecord(14, 104, 104))

UpatchBytes == <<216, 255, 255, 255>> \o Zeros(28) \o Word(40) \o Zeros(4)

LastClasses == {"key", "upatch", "data"}
LastName(class) ==
    CASE class = "key" -> <<107>> \o DotKey
      [] class = "upatch" -> Upatch
      [] class = "data" -> <<100>>

LastBytes(class, kind) ==
    CASE class = "key" -> KeyBytes(kind)
      [] class = "upatch" -> UpatchBytes
      [] class = "data" -> <<1, 2, 3, 4, 5, 6, 7, 8>>

\* an entry is present, filled with 0xFF, or placed beyond the end of the image
EntryStates == {"present", "ff", "beyond"}
Beyond == 16000

Fill(bytes, state) ==
    CASE state = "present" -> bytes
      [] state = "ff" -> [k \in 1..Len(bytes) |-> 255]
      [] state = "beyond" -> <<>>

\* the directory FTPR.man, a.met, a, b.met, b and a last entry: module a is
\* stored with compression comp and its hash is that of the stored bytes or
\* (hash_u, as the Huffman modules have it) of the decompressed ones; flip
\* changes one byte of module a
ModImage(comp, hash_u, flip, b_state, class, kind, last_state) ==
    LET a == Payload(comp)
        met_a == Ext0A(comp, PlainLen, Len(a),
                       sha_256(IF hash_u THEN Unpacked(comp) ELSE a))
        met_b == Ext0A(0, PlainLen, PlainLen, sha_256(PlainB))
        man == ManifestHead(0) \o Zeros(516) \o Ext03(met_a, met_b)
        last == LastBytes(class, kind)
        base == SizeofCPD_Header + 6 * SizeofCPD_Entry
        off_ma == base + Len(man)
        off_a == off_ma + 56
        off_mb == off_a + Len(a)
        off_b == off_mb + 56
        off_l == off_b + Len(Fill(PlainB, b_state))
        a_now == IF flip[1] < 0 THEN a ELSE [a EXCEPT ![flip[1] + 1] = flip[2]]
    IN  CpdHeader(6, 0)
            \o CpdEntry(NameFtprMan, Word(base), Len(man))
            \o CpdEntry(NameAMet, Word(off_ma), 56)
            \o CpdEntry(<<97>>, Word(off_a), PlainLen)
            \o CpdEntry(<<98>> \o DotMet, Word(off_mb), 56)
            \o CpdEntry(<<98>>, Word(IF b_state = "beyond" THEN Beyond ELSE off_b), PlainLen)
            \o CpdEntry(LastName(class),
                        Word(IF last_state = "beyond" THEN Beyond ELSE off_l), Len(last))
            \o man \o met_a \o a_now \o met_b \o Fill(PlainB, b_state)
            \o Fill(last, last_state)

\* the directories: one byte of module a changed or not, for each
\* compression; an empty or missing module or last entry; a key whose
\* Extensions are well formed, of length zero, or of an unassigned tag. A
\* key filled with 0xFF is left out: its 32-bit fields are above the
\* integers of the model.
ModScenarios ==
    {<<c, h, f, "present", class, "good", "present">> :
         c \in 0..2, h \in BOOLEAN, f \in Flips, class \in LastClasses}
    \cup {<<0, FALSE, <<-1, 0>>, b, class, "good", l>> :
              b \in EntryStates, class \in LastClasses, l \in EntryStates}
    \cup {<<0, FALSE, <<-1, 0>>, "present", "key", kind, "present">> : kind \in KeyExtKinds}

ModInit ==
    /\ \E s \in ModScenarios :
          /\ ~(s[5] = "key" /\ s[7] = "ff")
          /\ (s[1] = 0 => ~s[2]) /\ (s[1] = 1 => s[2])
          /\ reading = ModImage(s[1], s[2], s[3], s[4], s[5], s[6], s[7])
          /\ changed = IF s[3][1] < 0 THEN -1
                       ELSE SizeofCPD_Header + 6 * SizeofCPD_Entry + 836 + 56 + s[3][1]
    /\ entry_name_bound \in BOOLEAN
    /\ input_type = "$CPD"
    /\ input_offset = 0
    /\ param = [multi |-> FALSE, mass_scan |-> FALSE, print_msg |-> FALSE,
                me11_mod_extr |-> TRUE]
    /\ variant = "ME"
    /\ major = 11
    /\ pc = "ext_start"
    /\ err_stor = <<>>
    /\ mod_i = 0
    /\ stored = <<>>
    /\ UnpIdle
    /\ ScanIdle
    /\ MoreIdle
    /\ ExtLocals
    /\ DriverIdle
    /\ RsaIdle
    /\ FptIdle

ModNext ==
    \/ ExtStart
    \/ ExtEntry
    \/ ExtLoop
    \/ ExtMetaDone
    \/ ExtModule
    \/ ExtReturn
    \/ ModStart
    \/ ModStore
    \/ KeyLoop
    \/ ModReturn
    \/ PressEnter

SpecMod == ModInit /\ [][ModNext]_vars

\* end of entry e: directory_entry.offset + directory_entry.size
EntryEnd(e) == cpd_entry_offset(e) + cpd_entry_size(e)

\* C3: while the Extensions of a .man/.met entry are decoded, no image byte at
\* an offset >= entry offset + entry size is read: neither by the tag/length
\* reads, nor by the structure reads, nor by the sub-record reads.
C3_ReadsWithinEntry ==
    [][(pc = "ext_loop" \/ pc' = "ext_loop") => read_hi' <= EntryEnd(entry)]_vars

\* the first Extension of entry e declares the length 0, or a length larger
\* than what remains of the entry
BadDeclared(e) ==
    LET d == U32(reading, FirstExtOffset(e) + 4)
    IN  d = 0 \/ FirstExtOffset(e) + d > EntryEnd(e)

\* C4: when a .man/.met entry holds a declared length of 0 or one larger than
\* what remains, ext_anl ends by returning (it does not exit the process) and
\* the error list holds a message.
C4_BadLengthReported ==
    (/\ pc \in {"ext_ret", "press_enter", "exited"}
     /\ cpd_num > 0
     /\ \E e \in 0..(cpd_num - 1) : IsManMet(e) /\ BadDeclared(e))
        => (pc = "ext_ret" /\ err_stor # <<>>)

\* entry e starts with an Extension of unknown tag and non-zero declared
\* length d, and a whole Extension 0x0A lies at d bytes from it inside the entry
UnknownThen0A(e) ==
    LET o == FirstExtOffset(e)
        d == U32(reading, o + 4)
    IN  /\ U32(reading, o) \notin ext_tag_all
        /\ d > 0
        /\ U32(reading, o + d) = 10
        /\ o + d + ExtLength(10) <= EntryEnd(e)
        /\ EntryEnd(e) <= Len(reading)

HasRow(e) ==
    \E k \in 1..Len(cpd_mod_attr) : cpd_mod_attr[k].name = PySlice(cpd_entry_name(e), 0, -4)

\* C5: a turn of the Extension loop that meets a tag outside the known set
\* records one message naming the tag, advances the cursor by exactly the
\* declared length and stays in the decoding of the entry; and when ext_anl
\* returns, an Extension 0x0A that follows an unknown one has given its row.
C5_UnknownTagSkipped ==
    /\ [][(pc = "ext_loop" /\ loop_break < LoopBreakMax /\ ext_tag \notin ext_tag_all) =>
            /\ err_stor' = Append(err_stor, <<"unimplemented", ext_tag>>)
            /\ cpd_ext_offset' = cpd_ext_offset + U32(reading, cpd_ext_offset + 4)
            /\ pc' \in {"ext_loop", "ext_pass1"}]_vars
    /\ [](pc = "ext_ret" =>
            \A e \in 0..(cpd_num - 1) : (IsManMet(e) /\ UnknownThen0A(e)) => HasRow(e))

C5_Witness ==
    /\ pc = "ext_ret"
    /\ \E e \in 0..(cpd_num - 1) :
          /\ IsManMet(e) /\ UnknownThen0A(e) /\ HasRow(e)
          /\ \E k \in 1..Len(err_stor) :
                err_stor[k] = <<"unimplemented", U32(reading, FirstExtOffset(e))>>

\* C2: when the signature check raises (zero modulus), the verdict has its
\* error flag set and every consumer reports it as unknown: the main analysis
\* stores no "invalid signature" error, mod_anl prints UNKNOWN.
C2_UndeterminedIsUnknown ==
    /\ (pc = "rsa_main_done" /\ man_valid.error) =>
           /\ ~man_valid.valid
           /\ \A k \in 1..Len(err_stor) : err_stor[k] # "invalid FTPR RSA Signature"
    /\ (pc = "rsa_printed" /\ mn2_sigs.error) => printed = <<"UNKNOWN">>

\* the low n hexadecimal digits of the number d, leading zeros included
FixedLow(d, n) == [j \in 1..n |-> IF Len(d) - n + j >= 1 THEN d[Len(d) - n + j] ELSE 0]

\* C10: rsa_sig_val returns valid exactly when the low 256 (160) bits of
\* signature^exponent mod modulus, as a fixed-width value with its leading
\* zeros, equal the digest of the signed bytes.
C10_ValidIffLowBitsMatch ==
    (pc = "rsa_main_done" /\ ~man_valid.error) =>
        (man_valid.valid <=> FixedLow(man_valid.dec, Len(man_valid.sha)) = man_valid.sha)

LinesOf(name) == {printed[k] : k \in {j \in 1..Len(printed) : printed[j][1] = name}}

\* the hash lines of the entries other than module a: a.met, b.met and b
OtherHashLines ==
    {printed[k] : k \in {j \in 1..Len(printed) :
                            printed[j][1] # <<97>> /\ printed[j][2] = "Hash"
                            /\ printed[j][1] \in {NameAMet, <<98>> \o DotMet, <<98>>}}}

\* every entry of the directory is present
AllPresent ==
    \A k \in 1..Len(cpd_all_attr) : cpd_all_attr[k].empty = 0

\* the directory verifies as long as no byte is changed
ModBaseline ==
    (pc = "mod_done" /\ changed = -1 /\ AllPresent)
        => /\ LinesOf(<<97>>) = {<<<<97>>, "Hash", "VALID">>}
           /\ OtherHashLines = {<<NameAMet, "Hash", "VALID">>,
                                <<<<98>> \o DotMet, "Hash", "VALID">>,
                                <<<<98>>, "Hash", "VALID">>}

\* C11: in a directory whose modules all verify, changing one byte of the
\* stored payload of module a makes the line about a "Hash ... INVALID" and
\* leaves the lines of the other entries as they were, for uncompressed,
\* Huffman and LZMA modules
C11_CorruptModuleInvalid ==
    (pc = "mod_done" /\ changed # -1)
        => /\ LinesOf(<<97>>) = {<<<<97>>, "Hash", "INVALID">>}
           /\ OtherHashLines = {<<NameAMet, "Hash", "VALID">>,
                                <<<<98>> \o DotMet, "Hash", "VALID">>,
                                <<<<98>>, "Hash", "VALID">>}

\* entry e is not a manifest or metadata and its bytes are all 0xFF, or its
\* offset lies beyond the end of the image
EmptyEntry(e) ==
    /\ ~IsManMet(e)
    /\ \/ cpd_entry_offset(e) > Len(reading)
       \/ LET mod_data == PySlice(reading, cpd_entry_offset(e),
                                  cpd_entry_offset(e) + cpd_entry_size(e))
          IN  /\ Len(mod_data) = cpd_entry_size(e)
              /\ \A k \in 1..Len(mod_data) : mod_data[k] = 255

\* ext_anl has returned
ExtAnlReturned == pc \in {"ext_ret", "mod_loop", "key_loop", "mod_done"}

\* the process ended inside ext_anl
ExtAnlExited == exit_code # -1 /\ pc \in {"press_enter", "exited"} /\ printed = <<>>

EmptyFlagged ==
    ExtAnlReturned
        => \A e \in 0..(cpd_num - 1) :
               EmptyEntry(e)
                   => \E k \in 1..Len(cpd_mod_attr) :
                          /\ cpd_mod_attr[k].name = cpd_entry_name(e)
                          /\ cpd_mod_attr[k].empty = 1

EmptyNotStored ==
    \A e \in 0..(cpd_num - 1) :
        EmptyEntry(e) => \A k \in 1..Len(stored) : stored[k].name # cpd_entry_name(e)

\* C12: a module, key, microcode or data entry whose bytes are all 0xFF or
\* whose offset is beyond the end of the image has the empty flag in the rows
\* ext_anl returns, ext_anl does return, and mod_anl writes no file for it
C12_EmptyEntriesFlaggedKeptSkipped ==
    /\ EmptyFlagged
    /\ ~ExtAnlExited
    /\ EmptyNotStored

(***************************************************************************)
(* Partitions recorded for extraction ($FPT, BPDT, S-BPDT) and stored by   *)
(* x86_unpack                                                              *)
(***************************************************************************)
SizeofBPDT_Header == 24
SizeofBPDT_Entry == 12

\* int.from_bytes(reading[off:off + 2], 'little')
U16(off) == LE(PySlice(reading, off, off + 2))

\* what the recording of the partitions and x86_unpack leave alone
unpRest == <<source, param, cur_count, f_open, opened, warn_stor, note_stor, check_dir,
             oob_at, imageVars, rsaVars, input_type, input_offset, cpd_offset,
             start_man_match, cpd_num, cpd_valid, cpd_mod_off, cpd_mod_huff, cpd_mod_res,
             cpd_ext_offset, ext_tag, loop_break, cpd_mod_attr, cpd_ext_attr,
             cpd_ext_names, cpd_ext_hash, read_hi, start_fw_start_match,
             fpt_version, fpt_length, fpt_chk_fail, fpt_chk_calc, modVars, scanVars,
             moreVars>>

\* a row of fpt_part_all or bpdt_part_all: name (or type), start and end
Part(name, start, end) == [name |-> name, start |-> start, end |-> end]

\* the rows the secondary table at s_bpdt adds, one per entry that has an
\* offset and a size; oob is the offset get_struct refuses, -1 if none
SBpdtRows(s_bpdt) ==
    LET n == U16(s_bpdt + 4)
        first == s_bpdt + SizeofBPDT_Header
        bad == {j \in 0..(n - 1) : Oob(first + j * SizeofBPDT_Entry, SizeofBPDT_Entry)}
        RECURSIVE Rows(_)
        Rows(j) ==
            IF j >= n THEN <<>>
            ELSE LET e == first + j * SizeofBPDT_Entry
                     s_p_offset == U32(reading, e + 4)
                     s_p_size == U32(reading, e + 8)
                 IN  (IF s_p_offset = 0 \/ s_p_size = 0 THEN <<>>
                      ELSE <<Part(U16(e), start_fw_start_match + s_p_offset,
                                  start_fw_start_match + s_p_offset + s_p_size)>>)
                     \o Rows(j + 1)
    IN  IF Oob(s_bpdt, SizeofBPDT_Header) THEN [oob |-> s_bpdt, rows |-> <<>>]
        ELSE IF bad # {}
        THEN [oob |-> first + (CHOOSE j \in bad : \A k \in bad : j <= k) * SizeofBPDT_Entry,
              rows |-> <<>>]
        ELSE [oob |-> -1, rows |-> Rows(0)]

\* bpdt_hdr = get_struct(reading, start_fw_start_match, BPDT_Header)
BpdtHeader ==
    /\ pc = "bpdt"
    /\ IF Oob(start_fw_start_match, SizeofBPDT_Header)
       THEN /\ err_stor' = Append(err_stor, <<"out of bounds", start_fw_start_match>>)
            /\ MeaExit(1)
            /\ UNCHANGED fpt_part_num
       ELSE /\ fpt_part_num' = U16(start_fw_start_match + 4)
            /\ pc' = "bpdt_entries"
            /\ UNCHANGED <<err_stor, exit_code>>
    /\ entry' = 0
    /\ UNCHANGED <<fpt_part_all, bpdt_part_all, part_files>>
    /\ UNCHANGED unpRest

\* one turn of "for i in range(0, bpdt_part_num)" with -unp86: the entries of
\* a secondary table (Type 5), then the entry itself unless it is of Type 5
\* or lacks an offset or a size
BpdtEntry ==
    /\ pc = "bpdt_entries"
    /\ entry < fpt_part_num
    /\ LET e == start_fw_start_match + SizeofBPDT_Header + entry * SizeofBPDT_Entry
           p_type == U16(e)
           p_offset == U32(reading, e + 4)
           p_size == U32(reading, e + 8)
           sec == IF p_type = 5 THEN SBpdtRows(start_fw_start_match + p_offset)
                  ELSE [oob |-> -1, rows |-> <<>>]
           own == IF p_type = 5 \/ p_offset = 0 \/ p_size = 0 THEN <<>>
                  ELSE <<Part(p_type, start_fw_start_match + p_offset,
                              start_fw_start_match + p_offset + p_size)>>
       IN  IF Oob(e, SizeofBPDT_Entry) \/ sec.oob # -1
           THEN /\ err_stor' = Append(err_stor, <<"out of bounds",
                                                  IF Oob(e, SizeofBPDT_Entry) THEN e
                                                  ELSE sec.oob>>)
                /\ MeaExit(1)
                /\ UNCHANGED <<entry, bpdt_part_all>>
           ELSE /\ bpdt_part_all' = bpdt_part_all \o sec.rows \o own
                /\ entry' = entry + 1
                /\ UNCHANGED <<pc, err_stor, exit_code>>
    /\ UNCHANGED <<fpt_part_num, fpt_part_all, part_files>>
    /\ UNCHANGED unpRest

\* one turn of "for i in range(0, fpt_part_num)" with -unp86: the entry is
\* recorded, after the directory and the manifest of a WCOD or LOCL partition
\* were read
FptEntry ==
    /\ pc = "fpt_entries"
    /\ entry < fpt_part_num
    /\ LET fpt_at == start_fw_start_match + SizeofFPT_Header + entry * SizeofFPT_Entry
           p_name == CharField(PySlice(reading, fpt_at, fpt_at + 4))
           p_offset == U32(reading, fpt_at + 8)
           p_size == U32(reading, fpt_at + 12)
           fpt_start_unp == start_fw_start_match - 16 + p_offset
           with_id == p_name \in {<<87, 67, 79, 68>>, <<76, 79, 67, 76>>}
           mn2_start == fpt_start_unp + SizeofCPD_Header
                        + U32(reading, fpt_start_unp + 4) * SizeofCPD_Entry
           oob == IF Oob(fpt_at, SizeofFPT_Entry) THEN fpt_at
                  ELSE IF with_id /\ Oob(fpt_start_unp, SizeofCPD_Header) THEN fpt_start_unp
                  ELSE IF with_id /\ Oob(mn2_start, SizeofMN2_Manifest) THEN mn2_start
                  ELSE -1
       IN  IF oob # -1
           THEN /\ err_stor' = Append(err_stor, <<"out of bounds", oob>>)
                /\ MeaExit(1)
                /\ UNCHANGED <<entry, fpt_part_all>>
           ELSE /\ fpt_part_all' = Append(fpt_part_all,
                                          Part(p_name, fpt_start_unp, fpt_start_unp + p_size))
                /\ entry' = entry + 1
                /\ UNCHANGED <<pc, err_stor, exit_code>>
    /\ UNCHANGED <<fpt_part_num, bpdt_part_all, part_files>>
    /\ UNCHANGED unpRest

\* the table is read; the analysis goes on to x86_unpack (the steps between
\* the two do not touch the recorded partitions)
PartsDone ==
    /\ pc \in {"fpt_entries", "bpdt_entries"}
    /\ entry >= fpt_part_num
    /\ entry' = 0
    /\ pc' = "unpack"
    /\ UNCHANGED <<fpt_part_num, fpt_part_all, bpdt_part_all, part_files,
                   err_stor, exit_code>>
    /\ UNCHANGED unpRest

\* x86_unpack, one partition: a $FPT partition is stored unless its start is
\* 0, a BPDT partition unless its start or its end is 0; the file holds
\* reading[part_start:part_end]
UnpackPart ==
    /\ pc = "unpack"
    /\ entry < Len(fpt_part_all \o bpdt_part_all)
    /\ LET part == (fpt_part_all \o bpdt_part_all)[entry + 1]
           skip == IF entry < Len(fpt_part_all) THEN part.start = 0
                   ELSE part.start = 0 \/ part.end = 0
       IN  part_files' = IF skip THEN part_files
                         ELSE Append(part_files,
                                     [start |-> part.start, end |-> part.end,
                                      len |-> PySliceLen(Len(reading), part.start, part.end)])
    /\ entry' = entry + 1
    /\ UNCHANGED <<pc, fpt_part_num, fpt_part_all, bpdt_part_all, err_stor, exit_code>>
    /\ UNCHANGED unpRest

UnpackDone ==
    /\ pc = "unpack"
    /\ entry >= Len(fpt_part_all \o bpdt_part_all)
    /\ pc' = "unpacked"
    /\ UNCHANGED <<entry, fpt_part_num, fpt_part_all, bpdt_part_all, part_files,
                   err_stor, exit_code>>
    /\ UNCHANGED unpRest

\* ---- the tables the partitions are recorded from ----
UnpImageLen == 256
PartOffsets == {0, 160, 240}
PartSizes == {0, 16, 4096}

\* FPT_Entry: Name, Owner, Offset, Size and four more words
FptPartBytes(name, off, size) ==
    name \o <<255, 255, 255, 255>> \o Word(off) \o Word(size) \o Zeros(16)

\* the bytes of the image from its length so far up to UnpImageLen
Body(sofar) == Zeros(UnpImageLen - sofar)

\* ROMB instructions, header, entries, the 0xFF that end the table, data
FptPartImage(parts) ==
    LET table == Zeros(16) \o FptHeaderBytes(Len(parts), 32, 48, 0)
                 \o (IF Len(parts) >= 1 THEN FptPartBytes(parts[1][1], parts[1][2], parts[1][3])
                     ELSE <<>>)
                 \o (IF Len(parts) >= 2 THEN FptPartBytes(parts[2][1], parts[2][2], parts[2][3])
                     ELSE <<>>)
                 \o [k \in 1..32 |-> 255]
    IN  table \o Body(Len(table))

\* BPDT_Header: Signature, DescCount, VersionBPDT and four more words
BpdtHeaderBytes(n) == <<170, 85, 0, 0, n, 0, 1, 0>> \o Zeros(16)

BpdtEntryBytes(type, off, size) == <<type, 0, 0, 0>> \o Word(off) \o Word(size)

\* a primary table at 0 and a secondary table of one entry at SecondAt
SecondAt == 160
BpdtPartImage(parts, sec) ==
    LET table == BpdtHeaderBytes(Len(parts))
                 \o (IF Len(parts) >= 1
                     THEN BpdtEntryBytes(parts[1][1], parts[1][2], parts[1][3]) ELSE <<>>)
                 \o (IF Len(parts) >= 2
                     THEN BpdtEntryBytes(parts[2][1], parts[2][2], parts[2][3]) ELSE <<>>)
        gap == Zeros(SecondAt - Len(table))
        second == BpdtHeaderBytes(1) \o BpdtEntryBytes(sec[1], sec[2], sec[3])
    IN  table \o gap \o second \o Body(SecondAt + Len(second))

FptNames == {<<70, 84, 80, 82>>, <<76, 79, 67, 76>>}
BpdtTypes == {2, 5}

UnpInit ==
    /\ \/ /\ \E n \in 1..MaxPartitions :
                \E parts \in [1..n -> FptNames \X PartOffsets \X PartSizes] :
                    reading = FptPartImage(parts)
          /\ start_fw_start_match = 16
          /\ pc = "fpt"
       \/ /\ \E n \in 1..MaxPartitions :
                \E parts \in [1..n -> BpdtTypes \X PartOffsets \X PartSizes],
                   sec \in {2} \X PartOffsets \X PartSizes :
                    reading = BpdtPartImage(parts, sec)
          /\ start_fw_start_match = 0
          /\ pc = "bpdt"
    /\ param = [multi |-> FALSE, mass_scan |-> FALSE, print_msg |-> FALSE,
                me11_mod_extr |-> TRUE]
    /\ variant = "ME"
    /\ major = 11
    /\ err_stor = <<>>
    /\ FptLocals
    /\ UnpIdle
    /\ ModIdle
    /\ ScanIdle
    /\ MoreIdle
    /\ input_type = "$CPD" /\ input_offset = 0
    /\ ExtLocals
    /\ DriverIdle
    /\ RsaIdle

UnpNext ==
    \/ FptHeader
    \/ FptEntry
    \/ BpdtHeader
    \/ BpdtEntry
    \/ PartsDone
    \/ UnpackPart
    \/ UnpackDone
    \/ PressEnter

SpecUnp == UnpInit /\ [][UnpNext]_vars

\* C13: every partition recorded from the $FPT or from a BPDT or S-BPDT that
\* x86_unpack does not skip as empty has start + size, its recorded end, at
\* most the length of the image, and no stored partition reaches past the end
\* of the image
C13_PartitionsInsideImage ==
    /\ \A k \in 1..Len(fpt_part_all) :
           fpt_part_all[k].start # 0 => fpt_part_all[k].end <= Len(reading)
    /\ \A k \in 1..Len(bpdt_part_all) :
           (bpdt_part_all[k].start # 0 /\ bpdt_part_all[k].end # 0)
               => bpdt_part_all[k].end <= Len(reading)
    /\ \A k \in 1..Len(part_files) : part_files[k].end <= Len(reading)

(***************************************************************************)
(* Detection of the $FPT headers and the "multiple firmware" note          *)
(***************************************************************************)
\* re.compile(br'\x24\x46\x50\x54.\x00\x00\x00', re.DOTALL).finditer(reading):
\* the offsets of the matches
fpt_matches ==
    {k \in 0..(Len(reading) - 8) :
        /\ reading[k + 1] = 36
        /\ SubSeq(reading, k + 1, k + 4) = TagFPT
        /\ SubSeq(reading, k + 6, k + 8) = <<0, 0, 0>>}

\* reading[off:off + 4] == b'$FPT'
IsFptTag(off) == PySlice(reading, off, off + 4) = TagFPT

\* while reading[start + stride:start + stride + 4] == b'$FPT': start += stride.
\* The offset the loop ends at; it made (end - start) / stride turns.
RECURSIVE Bypass(_, _)
Bypass(start, stride) ==
    IF IsFptTag(start + stride) THEN Bypass(start + stride, stride) ELSE start

Stride100 == 256
Stride2100 == 8448
Stride1000 == 4096

\* what the detection and the note leave alone
scanRest == <<source, param, cur_count, f_open, opened, err_stor, warn_stor, check_dir,
              oob_at, exit_code, imageVars, rsaVars, cpdVars, fpt_part_num, fpt_version,
              fpt_length, fpt_chk_fail, fpt_chk_calc, modVars, unpVars, moreVars>>

\* fpt_ranges, fpt_count and the three bypass loops, from the first match
FptDetect ==
    /\ pc = "detect"
    /\ IF fpt_matches = {}
       THEN /\ pc' = "fpt_rgn"
            /\ UNCHANGED <<start_fw_start_match, fpt_count>>
       ELSE LET first == CHOOSE k \in fpt_matches : \A j \in fpt_matches : k <= j
                s1 == Bypass(first, Stride100)
                s2 == Bypass(s1, Stride2100)
                s3 == Bypass(s2, Stride1000)
            IN  /\ start_fw_start_match' = s3
                /\ fpt_count' = Cardinality(fpt_matches)
                                - ((s1 - first) \div Stride100)
                                - ((s2 - s1) \div Stride2100)
                                - ((s3 - s2) \div Stride1000)
                /\ pc' = "fpt"
    /\ UNCHANGED <<multi_rgn, note_stor>>
    /\ UNCHANGED scanRest

\* if rgn_exist: the SPS1/SPS4 backup header is not counted; multi_rgn
FptMultiRgn ==
    /\ pc = "fpt_chk"
    /\ LET count == IF variant = "SPS" /\ fpt_count = 2 /\ (major = 4 \/ major = 1)
                    THEN fpt_count - 1 ELSE fpt_count
       IN  /\ fpt_count' = count
           /\ multi_rgn' = IF count > 1 THEN TRUE ELSE multi_rgn
    /\ pc' = "fpt_rgn"
    /\ UNCHANGED <<start_fw_start_match, note_stor>>
    /\ UNCHANGED scanRest

\* the end of the analysis of the image: the note about multiple firmware
ScanComplete ==
    /\ pc = "fpt_rgn"
    /\ note_stor' = IF multi_rgn THEN Append(note_stor, <<"multiple firmware", fpt_count>>)
                    ELSE note_stor
    /\ pc' = "complete"
    /\ UNCHANGED <<start_fw_start_match, fpt_count, multi_rgn>>
    /\ UNCHANGED scanRest

\* ---- the images the headers are detected in ----
ScanLen == 12800

\* where a header may lie: at the backup strides from the first header, at
\* the sum of two strides, and at an offset no sum of strides reaches
ScanOffsets == {256, 4096, 4352, 8448, 12288}

\* a header the pattern matches (no partitions), and a tag whose
\* NumPartitions, 256, the pattern does not match
ScanHeader(kind) == TagFPT \o Word(IF kind = "tag" THEN 256 ELSE 0)

\* the offsets in ascending order, the first header before them
ScanSlots == <<0, 256, 4096, 4352, 8448, 12288>>

\* a header at 0 and a header or a tag at each offset of at, zeros between
RECURSIVE ScanPieces(_, _)
ScanPieces(at, i) ==
    IF i > Len(ScanSlots) THEN <<>>
    ELSE LET o == ScanSlots[i]
             next == IF i = Len(ScanSlots) THEN ScanLen ELSE ScanSlots[i + 1]
             piece == IF o = 0 THEN ScanHeader("hdr")
                      ELSE IF o \in DOMAIN at THEN ScanHeader(at[o])
                      ELSE Zeros(8)
         IN  piece \o Zeros(next - o - 8) \o ScanPieces(at, i + 1)

ScanImage(at) == ScanPieces(at, 1)

ScanVariants == {<<"ME", 11>>, <<"SPS", 4>>, <<"SPS", 3>>}

ScanInit ==
    /\ \E where \in SUBSET ScanOffsets, tags \in SUBSET {256}, vm \in ScanVariants :
          /\ tags \subseteq where
          /\ reading = ScanImage([o \in where |-> IF o \in tags THEN "tag" ELSE "hdr"])
          /\ variant = vm[1]
          /\ major = vm[2]
    /\ param = [multi |-> FALSE, mass_scan |-> FALSE, print_msg |-> FALSE,
                me11_mod_extr |-> FALSE]
    /\ pc = "detect"
    /\ err_stor = <<>>
    /\ start_fw_start_match = 0
    /\ FptLocals
    /\ ScanIdle
    /\ MoreIdle
    /\ ModIdle
    /\ UnpIdle
    /\ input_type = "$CPD" /\ input_offset = 0
    /\ ExtLocals
    /\ DriverIdle
    /\ RsaIdle

ScanNext ==
    \/ FptDetect
    \/ FptHeader
    \/ FptEntries
    \/ FptMultiRgn
    \/ ScanComplete

SpecScan == ScanInit /\ [][ScanNext]_vars

\* the offsets the bypass loops can reach from the first header: sums of
\* strides, each step landing on a $FPT tag
RECURSIVE Chained(_, _)
Chained(from, n) ==
    IF n = 0 THEN {from}
    ELSE {from} \cup UNION {Chained(from + s, n - 1) :
                               s \in {t \in {Stride100, Stride1000, Stride2100} :
                                         IsFptTag(from + t)}}

\* a header that is not a backup copy of the first one
Independent == {k \in fpt_matches : k \notin Chained(0, 4)}

\* C14: when the image holds two $FPT headers that are not chained by the
\* strides 0x100, 0x1000 and 0x2100, the note about multiple firmware is
\* emitted at the end of the analysis, whatever the copies bypassed
C14_IndependentHeadersReported ==
    (pc = "complete" /\ Independent # {})
        => \E k \in 1..Len(note_stor) : note_stor[k][1] = "multiple firmware"

(***************************************************************************)
(* -check: the driver loop with AMT 1.x images, found GUIDs and -unp86     *)
(***************************************************************************)
MaxChecked == 2

CheckInputs ==
    {Input("file", -1, FALSE, FALSE),
     [Input("file", -1, FALSE, FALSE) EXCEPT !.found_guid = TRUE],
     Input("file", ManFits, FALSE, FALSE),
     Input("file", ManFits, TRUE, FALSE),
     Input("file", ManFits, TRUE, TRUE),
     [Input("file", ManFits, TRUE, FALSE) EXCEPT !.me1 = TRUE],
     [Input("file", ManFits, TRUE, FALSE) EXCEPT !.me1 = TRUE, !.found_guid = TRUE],
     [Input("file", ManFits, TRUE, FALSE) EXCEPT !.fw_name = "11.8.50.3_COR_PRD_EXTR",
                                                !.parts = {"FTPR", "NFTP"}],
     Input("file", ManCut, TRUE, FALSE)}

CheckParams ==
    [multi : BOOLEAN, mass_scan : {TRUE}, print_msg : {FALSE}, me11_mod_extr : BOOLEAN]

CheckInit ==
    /\ \E n \in 1..MaxChecked : source \in [1..n -> CheckInputs]
    /\ param \in CheckParams
    /\ cur_count = 0
    /\ pc = "next"
    /\ f_open = {}
    /\ opened = {}
    /\ err_stor = <<>>
    /\ warn_stor = <<>>
    /\ note_stor = <<>>
    /\ check_dir = {}
    /\ exit_code = -1
    /\ oob_at = 0
    /\ ImageIdle
    /\ RsaIdle
    /\ CpdIdle
    /\ FptIdle
    /\ AuxIdle

CheckNext ==
    \/ OpenFile
    \/ NoManifest
    \/ FalseAnchor
    \/ ReadManifest
    \/ GetStructFail
    \/ Amt1x
    \/ Unpack86
    \/ Finish
    \/ EndOfSource
    \/ PressEnter

SpecCheck == CheckInit /\ [][CheckNext]_vars

\* C15: with -check, when the loop turns to the next input the image just
\* analysed is in the review folder if any error, warning or note was
\* recorded for it, whatever the path its analysis took
C15_MessagesCopiedOnEveryPath ==
    (param.multi /\ pc = "next" /\ cur_count >= 1 /\ Messages) => cur_count \in check_dir

\* C16: the folder x86_unpack made for one image, and the files in it, are
\* still there after any step of the analysis of another image
C16_OutputTreesKept ==
    [][\A d \in out_dir : d.by # cur_count' => d \in out_dir']_vars

(***************************************************************************)
(* UEFIFind Engine GUID detection (-enuf) and its temporary files          *)
(***************************************************************************)
MaxUf == 4

ufRest == <<source, f_open, opened, err_stor, warn_stor, note_stor, check_dir, exit_code,
            oob_at, imageVars, rsaVars, cpdVars, fptVars, modVars, unpVars, scanVars,
            out_dir, endVars, anchorVars, walkVars>>

\* a removal that leaves the output file of UEFIFind where it is
OsRemoveNotOutput(files, name) == IF name[2] = "out" THEN files ELSE files \ {name}

\* os.remove(name) on a file that exists
OsRemove(files, name) == files \ {name}

\* tempfile.NamedTemporaryFile(delete=False): a name no file and no variable holds
TempName(kind) == <<cur_count, kind>>

\* for file_in in source: the variables reset, then the step if -enuf is given
UfBegin ==
    /\ pc \in {"uf_next", "uf_done"}
    /\ cur_count < MaxUf
    /\ cur_count' = cur_count + 1
    /\ uf_error' = FALSE
    /\ found_guid' = ""
    /\ uf_made' = {}
    /\ pc' = IF param.enable_uf THEN "uf_pat" ELSE "uf_done"
    /\ UNCHANGED <<param, tmp_files, temp_ufpat, temp_ufout>>
    /\ UNCHANGED ufRest

\* with tempfile.NamedTemporaryFile(...) as temp_ufpat : temp_ufpat.write(uefi_pat)
UfPattern ==
    /\ pc = "uf_pat"
    /\ \E outcome \in {"written", "write raises", "create raises"} :
          /\ IF outcome = "create raises"
             THEN UNCHANGED <<tmp_files, temp_ufpat, uf_made>>
             ELSE /\ tmp_files' = tmp_files \cup {TempName("pat")}
                  /\ temp_ufpat' = TempName("pat")
                  /\ uf_made' = uf_made \cup {TempName("pat")}
          /\ uf_error' = IF outcome = "written" THEN uf_error ELSE TRUE
          /\ pc' = IF outcome = "written" THEN "uf_run" ELSE "uf_clean"
    /\ UNCHANGED <<param, cur_count, temp_ufout, found_guid>>
    /\ UNCHANGED ufRest

\* uf_subp = subprocess.check_output([uf_path, "file", temp_ufpat.name, file_in]),
\* decoded: CalledProcessError is passed over, any other exception sets uf_error
UfRun ==
    /\ pc = "uf_run"
    /\ \E outcome \in {"output", "CalledProcessError", "other exception"} :
          /\ uf_error' = IF outcome = "other exception" THEN TRUE ELSE uf_error
          /\ pc' = IF outcome = "output" THEN "uf_out" ELSE "uf_clean"
    /\ UNCHANGED <<param, cur_count, tmp_files, temp_ufpat, temp_ufout, uf_made, found_guid>>
    /\ UNCHANGED ufRest

\* with tempfile.NamedTemporaryFile(...) as temp_ufout : temp_ufout.write(uf_subp)
UfOutput ==
    /\ pc = "uf_out"
    /\ \E outcome \in {"written", "write raises", "create raises"} :
          /\ IF outcome = "create raises"
             THEN UNCHANGED <<tmp_files, temp_ufout, uf_made>>
             ELSE /\ tmp_files' = tmp_files \cup {TempName("out")}
                  /\ temp_ufout' = TempName("out")
                  /\ uf_made' = uf_made \cup {TempName("out")}
          /\ uf_error' = IF outcome = "written" THEN uf_error ELSE TRUE
          /\ pc' = IF outcome = "written" THEN "uf_parse" ELSE "uf_clean"
    /\ UNCHANGED <<param, cur_count, temp_ufpat, found_guid>>
    /\ UNCHANGED ufRest

\* the lines of the output file are read: a GUID found, none found, or an
\* exception while the lines are taken apart
UfParse ==
    /\ pc = "uf_parse"
    /\ \E outcome \in {"guid", "nothing found", "raises"} :
          /\ found_guid' = IF outcome = "guid" THEN "guid" ELSE found_guid
          /\ uf_error' = IF outcome = "raises" THEN TRUE ELSE uf_error
    /\ pc' = "uf_clean"
    /\ UNCHANGED <<param, cur_count, tmp_files, temp_ufpat, temp_ufout, uf_made>>
    /\ UNCHANGED ufRest

\* try : os.remove(temp_ufpat.name); os.remove(temp_ufout.name) / except : pass.
\* The first call raises when the name is unbound or the file is gone, and
\* the second call is then not made.
UfClean ==
    /\ pc = "uf_clean"
    /\ LET pat_ok == temp_ufpat # Unbound /\ temp_ufpat \in tmp_files
           after == IF pat_ok THEN OsRemove(tmp_files, temp_ufpat) ELSE tmp_files
           out_ok == pat_ok /\ temp_ufout # Unbound /\ temp_ufout \in after
       IN  tmp_files' = IF out_ok THEN OsRemove(after, temp_ufout) ELSE after
    /\ pc' = "uf_done"
    /\ UNCHANGED <<param, cur_count, temp_ufpat, temp_ufout, uf_made, uf_error, found_guid>>
    /\ UNCHANGED ufRest

UfInit ==
    /\ param \in [multi : {FALSE}, mass_scan : {FALSE}, print_msg : {FALSE},
                  me11_mod_extr : {FALSE}, enable_uf : BOOLEAN]
    /\ source = <<>>
    /\ cur_count = 0
    /\ pc = "uf_next"
    /\ f_open = {}
    /\ opened = {}
    /\ err_stor = <<>>
    /\ warn_stor = <<>>
    /\ note_stor = <<>>
    /\ check_dir = {}
    /\ exit_code = -1
    /\ oob_at = 0
    /\ ImageIdle
    /\ RsaIdle
    /\ CpdIdle
    /\ FptIdle
    /\ AuxIdle

UfNext ==
    \/ UfBegin
    \/ UfPattern
    \/ UfRun
    \/ UfOutput
    \/ UfParse
    \/ UfClean

SpecUf == UfInit /\ [][UfNext]_vars

\* C17: when the GUID detection step of an image is over, none of the
\* temporary files the step created exists, whether UEFIFind succeeded,
\* ended with an error status, could not be run, or its output could not be
\* read
C17_TempFilesRemoved ==
    pc = "uf_done" => uf_made \cap tmp_files = {}

\* the step of the second image ended after both files were made and the
\* reading of the output raised
C17_Witness ==
    /\ pc = "uf_done"
    /\ cur_count = 2
    /\ uf_made = {<<2, "pat">>, <<2, "out">>}
    /\ uf_error

(***************************************************************************)
(* The end of the firmware when the last $FPT partition has no size        *)
(***************************************************************************)
SizeofMME_Header_Old == 80
SizeofMME_Header_New == 96
Page == 4096

lastRest == <<source, param, cur_count, f_open, opened, warn_stor, note_stor, check_dir,
              oob_at, imageVars, rsaVars, cpdVars, fptVars, modVars, unpVars, scanVars,
              out_dir, ufVars, anchorVars, walkVars>>

\* the entries loop, as far as the last partition goes: eng_fw_end of an
\* entry, and the entry of the greatest offset kept in p_offset_last and
\* p_end_last. The result after the entries i..fpt_part_num - 1.
RECURSIVE LastOf(_, _)
LastOf(i, acc) ==
    IF i >= fpt_part_num THEN acc
    ELSE LET fpt_at == start_fw_start_match + SizeofFPT_Header + i * SizeofFPT_Entry
             p_offset == U32(reading, fpt_at + 8)
             p_size == U32(reading, fpt_at + 12)
             end == IF 0 < p_offset /\ p_offset < p_max_size /\ 0 < p_size /\ p_size < p_max_size
                    THEN p_offset + p_size ELSE p_max_size
         IN  LastOf(i + 1,
                    IF acc.off < p_offset /\ p_offset < p_max_size
                    THEN [off |-> p_offset, end |-> end, eng |-> end]
                    ELSE [acc EXCEPT !.eng = end])

\* for i in range(0, fpt_part_num): the entries read, the last partition kept
LastEntries ==
    /\ pc = "fpt_entries"
    /\ LET fpt_at == start_fw_start_match + SizeofFPT_Header
           last == fpt_at + (fpt_part_num - 1) * SizeofFPT_Entry
           kept == LastOf(0, [off |-> p_offset_last, end |-> p_end_last, eng |-> eng_fw_end])
       IN  IF fpt_part_num > 0 /\ Oob(last, SizeofFPT_Entry)
           THEN /\ err_stor' = Append(err_stor, <<"out of bounds", last>>)
                /\ MeaExit(1)
                /\ UNCHANGED <<p_offset_last, p_end_last, eng_fw_end>>
           ELSE /\ p_offset_last' = kept.off
                /\ p_end_last' = kept.end
                /\ eng_fw_end' = kept.eng
                /\ pc' = "fpt_chk"
                /\ UNCHANGED <<err_stor, exit_code>>
    /\ UNCHANGED <<fpt_start, man_tag, man_num, mod_start, mod_size_all, mod_end,
                   mod_end_max, mod_turn>>
    /\ UNCHANGED lastRest

\* fpt_start; if p_end_last == p_max_size the manifest of the last partition
\* is read. A last partition with a size is left to the scan for uncharted
\* partitions, which is not modelled.
LastStart ==
    /\ pc = "fpt_done"
    /\ LET start == IF fpt_version = 16 /\ fpt_length = 32 THEN start_fw_start_match
                    ELSE start_fw_start_match - 16
           at == p_offset_last + start
       IN  /\ fpt_start' = start
           /\ IF p_end_last # p_max_size
              THEN /\ pc' = "charted"
                   /\ UNCHANGED <<p_offset_last, man_tag, man_num, mod_start, err_stor,
                                  exit_code>>
              ELSE IF Oob(at, SizeofMN2_Manifest)
              THEN /\ err_stor' = Append(err_stor, <<"out of bounds", at>>)
                   /\ MeaExit(1)
                   /\ UNCHANGED <<p_offset_last, man_tag, man_num, mod_start>>
              ELSE /\ p_offset_last' = at
                   /\ man_tag' = PySlice(reading, at + 28, at + 32)
                   /\ man_num' = U32(reading, at + 32)
                   /\ mod_start' = at + U32(reading, at + 4) * 4 + 12
                   /\ pc' = "last_mods"
                   /\ UNCHANGED <<err_stor, exit_code>>
    /\ UNCHANGED <<p_end_last, eng_fw_end, mod_size_all, mod_end, mod_end_max, mod_turn>>
    /\ UNCHANGED lastRest

TagMN2 == <<36, 77, 78, 50>>
TagMAN == <<36, 77, 65, 78>>
TagMME == <<36, 77, 77, 69>>

\* one turn of "for _ in range(0, man_num)": a module header of ME 6 ($MN2)
\* or of ME 2-5 ($MAN); with another tag no loop is run
LastModule ==
    /\ pc = "last_mods"
    /\ mod_turn < man_num
    /\ man_tag \in {TagMN2, TagMAN}
    /\ IF man_tag = TagMN2
       THEN IF Oob(mod_start, SizeofMME_Header_New)
            THEN /\ err_stor' = Append(err_stor, <<"out of bounds", mod_start>>)
                 /\ MeaExit(1)
                 /\ UNCHANGED <<mod_start, mod_size_all, mod_end, mod_end_max, mod_turn>>
            ELSE LET mod_code_start == U32(reading, mod_start + 56)
                     mod_size_uncomp == U32(reading, mod_start + 60)
                     mod_size_comp == U32(reading, mod_start + 64)
                     mod_size == IF mod_size_comp > 0 THEN mod_size_comp ELSE mod_size_uncomp
                     end == p_offset_last + mod_code_start + mod_size
                 IN  /\ mod_end' = end
                     /\ mod_end_max' = IF end > mod_end_max THEN end ELSE mod_end_max
                     /\ mod_start' = mod_start + SizeofMME_Header_New
                     /\ mod_turn' = mod_turn + 1
                     /\ UNCHANGED <<mod_size_all, pc, err_stor, exit_code>>
       ELSE IF Oob(mod_start, SizeofMME_Header_Old)
            THEN /\ err_stor' = Append(err_stor, <<"out of bounds", mod_start>>)
                 /\ MeaExit(1)
                 /\ UNCHANGED <<mod_start, mod_size_all, mod_end, mod_end_max, mod_turn>>
            ELSE IF PySlice(reading, mod_start, mod_start + 4) = TagMME
            THEN LET all == mod_size_all + U32(reading, mod_start + 64)
                     end == mod_start + SizeofMME_Header_Old + 12 + all
                 IN  /\ mod_size_all' = all
                     /\ mod_end_max' = end
                     /\ mod_end' = end
                     /\ mod_start' = mod_start + SizeofMME_Header_Old
                     /\ mod_turn' = mod_turn + 1
                     /\ UNCHANGED <<pc, err_stor, exit_code>>
            ELSE /\ mod_turn' = mod_turn + 1
                 /\ UNCHANGED <<mod_start, mod_size_all, mod_end, mod_end_max, pc,
                                err_stor, exit_code>>
    /\ UNCHANGED <<fpt_start, p_offset_last, p_end_last, eng_fw_end, man_tag, man_num>>
    /\ UNCHANGED lastRest

\* mod_align and eng_fw_end, after the loop
LastAlign ==
    /\ pc = "last_mods"
    /\ mod_turn >= man_num \/ man_tag \notin {TagMN2, TagMAN}
    /\ LET mod_align == (mod_end_max - fpt_start) % Page
       IN  eng_fw_end' = IF mod_align > 0 THEN mod_end + Page - mod_align - fpt_start
                         ELSE mod_end
    /\ pc' = "last_done"
    /\ UNCHANGED <<fpt_start, p_offset_last, p_end_last, man_tag, man_num, mod_start,
                   mod_size_all, mod_end, mod_end_max, mod_turn, err_stor, exit_code>>
    /\ UNCHANGED lastRest

\* ---- the images: a $FPT of two partitions, the last one at LastAt ----
LastAt == 12288
HeaderWords == 161

\* offset of the $FPT header, its version and its length
LastLayouts == {<<0, 16, 32>>, <<4096, 16, 32>>, <<16, 32, 48>>}

\* Offset_MN2, SizeUncomp and SizeComp of a module of ME 6
NewModules == {<<768, 512, 0>>, <<2048, 2304, 2048>>, <<2048, 0, 4096>>}
\* Size of a module of ME 2-5
OldSizes == {256, 3348, 3012}

NameNFTP == <<78, 70, 84, 80>>
NameMDMV == <<77, 68, 77, 86>>

ManifestOf(tag, n) == Zeros(4) \o Word(HeaderWords) \o Zeros(20) \o tag \o Word(n) \o Zeros(608)

NewHeader(m) == Zeros(56) \o Word(m[1]) \o Word(m[2]) \o Word(m[3]) \o Zeros(28)
OldHeader(size) == TagMME \o Zeros(60) \o Word(size) \o Zeros(12)

RECURSIVE Headers(_, _, _)
Headers(tag, mods, i) ==
    IF i > Len(mods) THEN <<>>
    ELSE (IF tag = TagMN2 THEN NewHeader(mods[i]) ELSE OldHeader(mods[i]))
             \o Headers(tag, mods, i + 1)

LastImage(lay, size, tag, mods) ==
    LET start == IF lay[2] = 16 THEN lay[1] ELSE lay[1] - 16
        table == Zeros(lay[1]) \o FptHeaderBytes(2, lay[2], lay[3], 0)
                 \o FptPartBytes(NameNFTP, 4096, 8192)
                 \o FptPartBytes(NameMDMV, LastAt, size)
    IN  table \o Zeros(start + LastAt - Len(table))
              \o ManifestOf(tag, Len(mods)) \o Zeros(12) \o Headers(tag, mods, 1) \o Zeros(16)

LastInit ==
    /\ \E lay \in LastLayouts, size \in {0, Page}, n \in 1..MaxModules :
          \/ \E mods \in [1..n -> NewModules] :
                reading = LastImage(lay, size, TagMN2, mods)
                /\ start_fw_start_match = lay[1]
          \/ \E mods \in [1..n -> OldSizes] :
                reading = LastImage(lay, size, TagMAN, mods)
                /\ start_fw_start_match = lay[1]
    /\ variant = "ME"
    /\ major = 6
    /\ param = [multi |-> FALSE, mass_scan |-> FALSE, print_msg |-> FALSE,
                me11_mod_extr |-> FALSE]
    /\ pc = "fpt"
    /\ err_stor = <<>>
    /\ FptLocals
    /\ input_type = "$CPD" /\ input_offset = 0
    /\ ExtLocals
    /\ DriverIdle
    /\ RsaIdle
    /\ AuxIdle

LastNext ==
    \/ FptHeader
    \/ LastEntries
    \/ FptChecksum
    \/ LastStart
    \/ LastModule
    \/ LastAlign

SpecLast == LastInit /\ [][LastNext]_vars

\* C18: when the last partition has no size, eng_fw_end, counted from the
\* start of the $FPT, is the greatest end of the modules walked, rounded up
\* to a multiple of 0x1000: a multiple of 0x1000, not below that end and
\* less than 0x1000 above it
C18_EndRoundedUp ==
    pc = "last_done" =>
        LET greatest == mod_end_max - fpt_start
        IN  /\ eng_fw_end % Page = 0
            /\ eng_fw_end >= greatest
            /\ eng_fw_end - greatest < Page

(***************************************************************************)
(* The manifest anchor and the vendor ID                                   *)
(***************************************************************************)
anchorRest == <<source, param, cur_count, f_open, opened, err_stor, warn_stor, note_stor,
                check_dir, exit_code, oob_at, imageVars, rsaVars, input_type, input_offset,
                cpd_offset, cpd_num, cpd_valid, entry, cpd_mod_off, cpd_mod_huff,
                cpd_mod_res, cpd_ext_offset, ext_tag, loop_break, cpd_mod_attr,
                cpd_ext_attr, cpd_ext_names, cpd_ext_hash, read_hi, fptVars, modVars,
                unpVars, scanVars, out_dir, ufVars, endVars, walkVars>>

AnchorMAN == <<0, 36, 77, 65, 78>>

\* the offsets at which tag, gap bytes of any value and text follow one
\* another: the matches of re.compile(tag + b'.{gap}' + text, re.DOTALL)
Matches(tag, gap, text) ==
    {k \in 0..(Len(reading) - Len(tag) - gap - Len(text)) :
        /\ SubSeq(reading, k + 1, k + Len(tag)) = tag
        /\ SubSeq(reading, k + Len(tag) + gap + 1, k + Len(tag) + gap + Len(text)) = text}

\* bytes.decode('utf-8', 'ignore') of a field of ASCII bytes and bytes that
\* are no UTF-8: the ASCII bytes stay
DecodeIgnore(b) == SelectSeq(b, LAMBDA x : x < 128)

Field(off, n) == DecodeIgnore(PySlice(reading, off, off + n))

TextFTPR == <<70, 84, 80, 82>>
TextOPR == <<79, 80, 82>>
TextOP == <<79, 80>>
TextWCOD == <<87, 67, 79, 68>>
TextLOCL == <<76, 79, 67, 76>>
TextBRIN == <<66, 82, 73, 78>>
TextEpsR == <<69, 112, 115, 82>>
TextEpsF == <<69, 112, 115, 70>>
TextIGRT == <<73, 71, 82, 84>>
TextMMEBUP == <<36, 77, 77, 69, 66, 85, 80>>

\* pr_man_1 .. pr_man_7: a marker of a Recovery manifest follows the anchor
\* that ends at end_man_match
RecoveryMarker(end_man_match) ==
    \/ \E t \in {TextFTPR, TextOPR} : Contains(Field(end_man_match + 628, 4), t)
    \/ \E t \in {TextFTPR, TextOP, TextWCOD, TextLOCL} :
          Contains(Field(end_man_match + 612, 4), t)
    \/ Contains(Field(end_man_match + 652, 4), TextBRIN)
    \/ \E t \in {TextEpsR, TextEpsF} : Contains(Field(end_man_match + 732, 4), t)
    \/ Contains(Field(end_man_match + 612, 4), TextIGRT)
    \/ Contains(Field(end_man_match + 624, 7), TextMMEBUP)
    \/ \E t \in {TextWCOD, TextLOCL} : Contains(Field(end_man_match + 620, 4), t)

\* the searches made when several manifests exist, in their order: the
\* start of the first match of the first pattern that matches, -1 if none does
PrManPatterns ==
    <<<<AnchorMN2, 628, TextFTPR>>, <<AnchorMN2, 628, TextOPR \o <<0>>>>,
      <<AnchorMN2, 612, TextIGRT>>, <<AnchorMN2, 612, TextFTPR>>,
      <<AnchorMN2, 612, TextOP>>, <<AnchorMAN, 652, TextBRIN>>,
      <<AnchorMAN, 732, <<69, 112, 115>>>>>>

RECURSIVE PrMan(_)
PrMan(i) ==
    IF i > Len(PrManPatterns) THEN -1
    ELSE LET pat == PrManPatterns[i]
             hits == Matches(pat[1], pat[2], pat[3])
         IN  IF hits # {} THEN CHOOSE k \in hits : \A j \in hits : k <= j
             ELSE PrMan(i + 1)

\* intel_id(): the two bytes at start - 0xB, most significant last, are 8086
IntelId(start) == PySlice(reading, start - 11, start - 9) = <<134, 128>>

\* man_pat.finditer(reading): the anchors \x00$MN2 and \x00$MAN; the first
\* one becomes man_match
AnchorScan ==
    /\ pc = "man_scan"
    /\ LET found == Ascending(Matches(AnchorMN2, 0, <<>>) \cup Matches(AnchorMAN, 0, <<>>))
       IN  /\ man_match_store' = found
           /\ start_man_match' = IF found = <<>> THEN -1 ELSE found[1]
           /\ pc' = IF found = <<>> THEN "no_man" ELSE "man_check"
    /\ UNCHANGED anchorRest

\* the markers after the anchor, the searches for a Recovery manifest and
\* the vendor ID: the analysis goes on, or "File does not contain Intel
\* Engine firmware" is printed and the next input taken
AnchorCheck ==
    /\ pc = "man_check"
    /\ IF ~RecoveryMarker(start_man_match + 5)
       THEN IF Len(man_match_store) > 1 /\ PrMan(1) # -1
            THEN /\ start_man_match' = PrMan(1)
                 /\ pc' = IF IntelId(PrMan(1)) THEN "manifest" ELSE "no_firmware"
            ELSE /\ pc' = "no_firmware"
                 /\ UNCHANGED start_man_match
       ELSE /\ pc' = IF IntelId(start_man_match) THEN "manifest" ELSE "no_firmware"
            /\ UNCHANGED start_man_match
    /\ UNCHANGED man_match_store
    /\ UNCHANGED anchorRest

\* ---- the images: up to MaxAnchors manifests one after another ----
MaxAnchors == 3
BlockLen == 672

\* a manifest: VEN_ID at 0x10, the anchor at 0x1B, the marker 0x274 after
\* the end of the anchor
ManifestBlock(vendor, marker) ==
    Zeros(16) \o <<IF vendor THEN 134 ELSE 135, 128, 0, 0>> \o Zeros(7) \o AnchorMN2
        \o Zeros(628) \o (IF marker THEN TextFTPR ELSE Zeros(4)) \o Zeros(BlockLen - 664)

RECURSIVE BlocksOf(_, _)
BlocksOf(blocks, i) ==
    IF i > Len(blocks) THEN <<>>
    ELSE ManifestBlock(blocks[i][1], blocks[i][2]) \o BlocksOf(blocks, i + 1)

AnchorInit ==
    /\ \E n \in 0..MaxAnchors : \E blocks \in [1..n -> BOOLEAN \X BOOLEAN] :
          reading = Zeros(BlockLen) \o BlocksOf(blocks, 1)
    /\ variant = "ME"
    /\ major = 0
    /\ param = [multi |-> FALSE, mass_scan |-> FALSE, print_msg |-> FALSE,
                me11_mod_extr |-> FALSE]
    /\ pc = "man_scan"
    /\ err_stor = <<>>
    /\ FptIdle
    /\ CpdIdle
    /\ DriverIdle
    /\ RsaIdle
    /\ AuxIdle

AnchorNext ==
    \/ AnchorScan
    \/ AnchorCheck

SpecAnchor == AnchorInit /\ [][AnchorNext]_vars

\* an anchor a Recovery marker follows and whose vendor ID is 8086
GoodAnchor(start) == RecoveryMarker(start + 5) /\ IntelId(start)

\* C19: "File does not contain Intel Engine firmware" is only said of an
\* image when every anchor found in it was rejected: an anchor whose vendor
\* ID is not 8086 is given up for the next one in scan order
C19_NextAnchorTried ==
    pc = "no_firmware" =>
        \A k \in 1..Len(man_match_store) : ~GoodAnchor(man_match_store[k])

\* entry e was closed by the forced break of the Extension loop
ForcedBreak(e) == \E k \in 1..Len(err_stor) : err_stor[k] = <<"forced break", e>>

\* C20: the Extension loop of an entry makes at most 100 turns; when it is
\* broken at the cap, one error and no more is recorded for the entry, its
\* decoding stops and the entries after it are analysed all the same
C20_CapOneErrorThenGoOn ==
    /\ loop_break <= LoopBreakMax + 1
    /\ (pc = "ext_ret" /\ ForcedBreak(0)) =>
           /\ err_stor = <<<<"forced break", 0>>>>
           /\ \A e \in 1..(cpd_num - 1) : IsManMet(e) => HasRow(e)

(***************************************************************************)
(* Extra $FPT entries beyond NumPartitions                                 *)
(***************************************************************************)
extraRest == <<source, cur_count, f_open, opened, note_stor, check_dir, oob_at, param,
               imageVars, rsaVars, cpdVars, fptVars, modVars, unpVars, scanVars, out_dir,
               ufVars, endVars, anchorVars>>

walkLocals == <<p_end_last_cont, cpd_offset_last, cpd_end_last, walk_turn, walked, rgnVars>>

NameFF == <<255, 255, 255, 255>>
TenFF == <<255, 255, 255, 255, 255, 255, 255, 255, 255, 255>>

\* the entries of the table whose name is b'\xFF\xFF\xFF\xFF' or b'', among the first n
Unnamed(n) ==
    {i \in 0..(n - 1) :
        LET at == start_fw_start_match + SizeofFPT_Header + i * SizeofFPT_Entry
        IN  CharField(PySlice(reading, at, at + 4)) \in {NameFF, <<>>}}

\* for i in range(0, fpt_part_num): fpt_entry = get_struct(reading, fpt_step,
\* FPT_Entry); fpt_num_diff -= 1 for an entry without a name; fpt_step += 0x20
ExtraEntries ==
    /\ pc = "fpt_entries"
    /\ LET first == start_fw_start_match + SizeofFPT_Header
           bad == {i \in 0..(fpt_part_num - 1) : Oob(first + i * SizeofFPT_Entry,
                                                     SizeofFPT_Entry)}
       IN  IF bad # {}
           THEN LET i == CHOOSE b \in bad : \A c \in bad : b <= c
                IN  /\ err_stor' = Append(err_stor, <<"out of bounds",
                                                      first + i * SizeofFPT_Entry>>)
                    /\ MeaExit(1)
                    /\ fpt_step' = first + i * SizeofFPT_Entry
                    /\ fpt_num_diff' = fpt_num_diff - Cardinality(Unnamed(i))
           ELSE /\ fpt_step' = first + fpt_part_num * SizeofFPT_Entry
                /\ fpt_num_diff' = fpt_num_diff - Cardinality(Unnamed(fpt_part_num))
                /\ pc' = "fpt_extra"
                /\ UNCHANGED <<err_stor, exit_code>>
    /\ UNCHANGED <<warn_stor, fpt_num_fail, walkLocals>>
    /\ UNCHANGED extraRest

\* the greatest fpt_step the model follows the scan to; it is beyond the end
\* of every image, where reading[fpt_step + 0x2:fpt_step + 0xC] is b'' for good
StepMax == 512

\* while reading[fpt_step + 0x2:fpt_step + 0xC] != b'\xFF' * 10 :
\*     fpt_num_diff += 1; fpt_step += 0x20
\* From StepMax on, which is past the end of every image, the two numbers are
\* no longer followed: walk_turn tells one turn of the loop from the next.
ExtraScan ==
    /\ pc = "fpt_extra"
    /\ IF PySlice(reading, fpt_step + 2, fpt_step + 12) # TenFF
       THEN /\ IF fpt_step < StepMax
               THEN /\ fpt_num_diff' = fpt_num_diff + 1
                    /\ fpt_step' = fpt_step + SizeofFPT_Entry
                    /\ UNCHANGED walk_turn
               ELSE /\ walk_turn' = 1 - walk_turn
                    /\ UNCHANGED <<fpt_num_diff, fpt_step>>
            /\ UNCHANGED pc
       ELSE /\ pc' = "fpt_num"
            /\ UNCHANGED <<fpt_num_diff, fpt_step, walk_turn>>
    /\ UNCHANGED <<err_stor, warn_stor, exit_code, fpt_num_fail, p_end_last_cont,
                   cpd_offset_last, cpd_end_last, walked, rgnVars>>
    /\ UNCHANGED extraRest

\* if fpt_num_diff != 0 : fpt_num_fail = True
ExtraCount ==
    /\ pc = "fpt_num"
    /\ fpt_num_fail' = (fpt_num_diff # 0)
    /\ pc' = "fpt_warn"
    /\ UNCHANGED <<err_stor, warn_stor, exit_code, fpt_step, fpt_num_diff, walkLocals>>
    /\ UNCHANGED extraRest

\* if fpt_num_fail : gen_msg(warn_stor, "Warning: Wrong $FPT entry count %s,
\* expected %s!" % (fpt_num_file, fpt_num_calc))
ExtraWarn ==
    /\ pc = "fpt_warn"
    /\ warn_stor' = IF fpt_num_fail
                    THEN Append(warn_stor, <<"wrong entry count", fpt_part_num,
                                             fpt_part_num + fpt_num_diff>>)
                    ELSE warn_stor
    /\ pc' = "complete"
    /\ UNCHANGED <<err_stor, exit_code, fpt_step, fpt_num_diff, fpt_num_fail, walkLocals>>
    /\ UNCHANGED extraRest

\* ---- the tables the scan runs on ----
\* entries in the table, the first `named` of them with a name, the others
\* all 0xFF behind the first two bytes
MaxEntries == 3

EntryNamed == <<70, 84, 80, 82, 255, 255, 255, 255>> \o [k \in 1..24 |-> 7]
EntryBlank == [k \in 1..32 |-> 255]
EntryZero == <<0, 0>> \o [k \in 1..30 |-> 255]

\* what follows the entries: a run of 0xFF, a run of 0xFF the end of the image
\* cuts after 9 bytes, other bytes up to the end of the image, nothing
Tails == {"run", "cut", "data", "none"}

TailBytes(tail) ==
    CASE tail = "run" -> [k \in 1..32 |-> 255]
      [] tail = "cut" -> [k \in 1..11 |-> 255]
      [] tail = "data" -> [k \in 1..40 |-> 7]
      [] tail = "none" -> <<>>

RECURSIVE Repeat(_, _)
Repeat(piece, n) == IF n = 0 THEN <<>> ELSE piece \o Repeat(piece, n - 1)

ExtraImage(at, declared, named, blank, zero, tail) ==
    [k \in 1..at |-> 0] \o FptHeaderBytes(declared, 32, 32, 0)
        \o Repeat(EntryNamed, named) \o Repeat(EntryZero, zero) \o Repeat(EntryBlank, blank)
        \o TailBytes(tail)

ExtraInit ==
    /\ \E at \in FptOffsets, declared \in 0..MaxEntries, named \in 0..MaxEntries,
          blank \in 0..1, zero \in 0..1, tail \in Tails :
          /\ reading = ExtraImage(at, declared, named, blank, zero, tail)
          /\ start_fw_start_match = at
    /\ variant = "ME" /\ major = 11
    /\ param = [multi |-> FALSE, mass_scan |-> FALSE, print_msg |-> FALSE,
                me11_mod_extr |-> FALSE]
    /\ pc = "fpt"
    /\ err_stor = <<>>
    /\ FptLocals
    /\ input_type = "$CPD" /\ input_offset = 0
    /\ ExtLocals
    /\ DriverIdle
    /\ RsaIdle
    /\ AuxIdle

ExtraNext ==
    \/ FptHeader
    \/ ExtraEntries
    \/ ExtraScan
    \/ ExtraCount
    \/ ExtraWarn

\* a step of the analysis is taken whenever one can be taken
SpecExtra == ExtraInit /\ [][ExtraNext]_vars /\ WF_vars(ExtraNext)

\* C21: the scan for extra $FPT entries ends on every image, also when no run
\* of 0xFF follows the entries before the end of the buffer, and a count that
\* differs from NumPartitions only stores the 'wrong entry count' warning.
C21_ExtraScanEnds ==
    /\ (pc = "fpt_extra") ~> (pc = "fpt_num")
    /\ [](pc = "complete" =>
            /\ exit_code = -1 /\ err_stor = <<>>
            /\ warn_stor = IF fpt_num_diff # 0
                           THEN <<<<"wrong entry count", fpt_part_num,
                                    fpt_part_num + fpt_num_diff>>>>
                           ELSE <<>>)

(***************************************************************************)
(* Uncharted partitions after the last $FPT entry                          *)
(***************************************************************************)
walkRest == <<source, cur_count, f_open, opened, warn_stor, note_stor, check_dir, oob_at,
              param, imageVars, rsaVars, cpdVars, fptVars, modVars, unpVars, scanVars,
              out_dir, ufVars, anchorVars, fpt_step, fpt_num_diff, fpt_num_fail, fpt_start,
              p_offset_last, man_tag, mod_end, mod_end_max, mod_turn, rgnVars>>

SizeofMCP_Header == 68
SizeofCPD_Ext_03 == 88
TagMCP == <<36, 77, 67, 80>>
VenIntel == 32902

\* the greatest number of turns of the loops the model follows
MaxTurns == 4

\* get_struct found the structure out of the image: the error and sys.exit(1)
WalkOob(off) ==
    /\ err_stor' = Append(err_stor, <<"out of bounds", off>>)
    /\ MeaExit(1)

\* if variant == 'TXE' and major == 3 and reading[p_end_last:p_end_last + 0x4] != b'$CPD' :
\*     if reading[p_end_last + 0x1000:p_end_last + 0x1004] == b'$CPD' : p_end_last += 0x1000
WalkDnxp ==
    /\ pc = "charted"
    /\ p_end_last' = IF /\ variant = "TXE" /\ major = 3
                        /\ PySlice(reading, p_end_last, p_end_last + 4) # TagCPD
                        /\ PySlice(reading, p_end_last + Page, p_end_last + Page + 4) = TagCPD
                     THEN p_end_last + Page ELSE p_end_last
    /\ pc' = "walk_mn2"
    /\ UNCHANGED <<err_stor, exit_code, eng_fw_end, man_num, mod_start, mod_size_all,
                   walkLocals>>
    /\ UNCHANGED walkRest

\* one turn of "while reading[p_end_last + 0x1C:p_end_last + 0x20] == b'$MN2'",
\* or the end of the loop
WalkMn2 ==
    /\ pc = "walk_mn2"
    /\ IF PySlice(reading, p_end_last + 28, p_end_last + 32) = TagMN2
       THEN /\ walk_turn < MaxTurns
            /\ walk_turn' = walk_turn + 1
            /\ IF Oob(p_end_last, SizeofMN2_Manifest)
               THEN /\ WalkOob(p_end_last)
                    /\ UNCHANGED <<p_end_last, man_num, mod_start>>
               ELSE IF U32(reading, p_end_last + 16) = VenIntel
               THEN LET num == U32(reading, p_end_last + 32)
                        man_len == U32(reading, p_end_last + 4) * 4
                        start == p_end_last + man_len + 12
                        mme_size == IF variant = "TXE" THEN 128 ELSE 96
                        mcp_start == start + num * mme_size + mme_size
                    IN  /\ man_num' = num
                        /\ mod_start' = start
                        /\ IF Oob(mcp_start, SizeofMCP_Header)
                           THEN WalkOob(mcp_start) /\ UNCHANGED p_end_last
                           ELSE IF CharField(PySlice(reading, mcp_start, mcp_start + 4)) = TagMCP
                           THEN /\ p_end_last' = p_end_last + U32(reading, mcp_start + 12)
                                                            + U32(reading, mcp_start + 8)
                                /\ UNCHANGED <<pc, err_stor, exit_code>>
                           ELSE /\ pc' = "walk_man"
                                /\ UNCHANGED <<p_end_last, err_stor, exit_code>>
               ELSE /\ pc' = "walk_man"
                    /\ UNCHANGED <<p_end_last, man_num, mod_start, err_stor, exit_code>>
       ELSE /\ pc' = "walk_man"
            /\ UNCHANGED <<p_end_last, man_num, mod_start, err_stor, exit_code, walk_turn>>
    /\ UNCHANGED <<eng_fw_end, mod_size_all, p_end_last_cont, cpd_offset_last, cpd_end_last,
                   walked>>
    /\ UNCHANGED walkRest

\* for _ in range(0, man_num) of the $MAN walk, from turn k on: mod_start,
\* mod_size_all and p_end_last after the loop, oob being the offset of the
\* $MME header get_struct found out of the image, -1 if none
RECURSIVE ManModules(_, _, _, _, _)
ManModules(k, num, start, all, end) ==
    IF k >= num THEN [mod_start |-> start, mod_size_all |-> all, p_end_last |-> end, oob |-> -1]
    ELSE IF Oob(start, SizeofMME_Header_Old)
    THEN [mod_start |-> start, mod_size_all |-> all, p_end_last |-> end, oob |-> start]
    ELSE IF CharField(PySlice(reading, start, start + 4)) = TagMME
    THEN ManModules(k + 1, num, start + SizeofMME_Header_Old,
                    all + U32(reading, start + 64),
                    start + SizeofMME_Header_Old + 12 + all + U32(reading, start + 64))
    ELSE [mod_start |-> start, mod_size_all |-> all, p_end_last |-> end + 10, oob |-> -1]

\* one turn of "while reading[p_end_last + 0x1C:p_end_last + 0x20] == b'$MAN'",
\* or the end of the loop
WalkMan ==
    /\ pc = "walk_man"
    /\ IF PySlice(reading, p_end_last + 28, p_end_last + 32) = TagMAN
       THEN /\ walk_turn < MaxTurns
            /\ walk_turn' = walk_turn + 1
            /\ IF Oob(p_end_last, SizeofMN2_Manifest)
               THEN /\ WalkOob(p_end_last)
                    /\ UNCHANGED <<p_end_last, man_num, mod_start, mod_size_all>>
               ELSE IF U32(reading, p_end_last + 16) = VenIntel
               THEN LET num == U32(reading, p_end_last + 32)
                        man_len == U32(reading, p_end_last + 4) * 4
                        r == ManModules(0, num, p_end_last + man_len + 12, 0, p_end_last)
                    IN  /\ man_num' = num
                        /\ mod_start' = r.mod_start
                        /\ mod_size_all' = r.mod_size_all
                        /\ p_end_last' = r.p_end_last
                        /\ IF r.oob >= 0 THEN WalkOob(r.oob)
                           ELSE UNCHANGED <<pc, err_stor, exit_code>>
               ELSE /\ pc' = "walk_cpd"
                    /\ UNCHANGED <<p_end_last, man_num, mod_start, mod_size_all, err_stor,
                                   exit_code>>
       ELSE /\ pc' = "walk_cpd"
            /\ UNCHANGED <<p_end_last, man_num, mod_start, mod_size_all, err_stor, exit_code,
                           walk_turn>>
    /\ UNCHANGED <<eng_fw_end, p_end_last_cont, cpd_offset_last, cpd_end_last, walked>>
    /\ UNCHANGED walkRest

\* the CPD_Entry e of the directory at cpd
WalkEntry(cpd, e) == cpd + SizeofCPD_Header + e * SizeofCPD_Entry
WalkEntryName(cpd, e) == CharField(PySlice(reading, WalkEntry(cpd, e), WalkEntry(cpd, e) + 12))
WalkEntryOffset(cpd, e) ==
    CpdModOff(Format032b(PySlice(reading, WalkEntry(cpd, e) + 12, WalkEntry(cpd, e) + 16)))
WalkEntrySize(cpd, e) == U32(reading, WalkEntry(cpd, e) + 16)
WalkIsManMet(cpd, e) ==
    Contains(WalkEntryName(cpd, e), DotMet) \/ Contains(WalkEntryName(cpd, e), DotMan)

\* for entry in range(1, cpd_num, 2) of the $CPD walk, from entry e on:
\* cpd_offset_last and cpd_end_last after the loop, oob as above
RECURSIVE CpdEntriesEnd(_, _, _, _, _)
CpdEntriesEnd(cpd, e, num, off_last, end_last) ==
    IF e >= num THEN [cpd_offset_last |-> off_last, cpd_end_last |-> end_last, oob |-> -1]
    ELSE IF Oob(WalkEntry(cpd, e), SizeofCPD_Entry)
    THEN [cpd_offset_last |-> off_last, cpd_end_last |-> end_last, oob |-> WalkEntry(cpd, e)]
    ELSE IF WalkIsManMet(cpd, e)
    THEN [cpd_offset_last |-> off_last, cpd_end_last |-> end_last, oob |-> -1]
    ELSE IF WalkEntryOffset(cpd, e) > off_last
    THEN CpdEntriesEnd(cpd, e + 2, num, WalkEntryOffset(cpd, e),
                       WalkEntryOffset(cpd, e) + WalkEntrySize(cpd, e))
    ELSE CpdEntriesEnd(cpd, e + 2, num, off_last, end_last)

\* one turn of "while reading[p_end_last:p_end_last + 0x4] == b'$CPD'", or the
\* end of the loop
WalkCpd ==
    /\ pc = "walk_cpd"
    /\ IF PySlice(reading, p_end_last, p_end_last + 4) = TagCPD
       THEN /\ walk_turn < MaxTurns
            /\ walk_turn' = walk_turn + 1
            /\ LET num == U32(reading, p_end_last + 4)
                   cpd_tag == CharField(PySlice(reading, p_end_last + 12, p_end_last + 16))
                   mn2_start == p_end_last + SizeofCPD_Header + num * SizeofCPD_Entry
                   ext == mn2_start + U32(reading, mn2_start + 4) * 4
                   cont == U32(reading, ext + 12)
                   r == CpdEntriesEnd(p_end_last, 1, num, cpd_offset_last, cpd_end_last)
                   Stop == /\ pc' = "walk_align"
                           /\ UNCHANGED <<p_end_last, p_end_last_cont, cpd_offset_last,
                                          cpd_end_last, walked, err_stor, exit_code>>
                   Exit(off) == /\ WalkOob(off)
                                /\ UNCHANGED <<p_end_last, p_end_last_cont, cpd_offset_last,
                                               cpd_end_last, walked>>
               IN  IF Oob(p_end_last, SizeofCPD_Header) THEN Exit(p_end_last)
                   ELSE IF Oob(mn2_start, SizeofMN2_Manifest) THEN Exit(mn2_start)
                   ELSE IF CharField(PySlice(reading, mn2_start + 28, mn2_start + 32)) # TagMN2
                   THEN Stop
                   ELSE IF Oob(ext, SizeofCPD_Ext_03) THEN Exit(ext)
                   ELSE IF CharField(PySlice(reading, ext + 8, ext + 12)) # cpd_tag THEN Stop
                   ELSE /\ p_end_last_cont' = cont
                        /\ cpd_offset_last' = r.cpd_offset_last
                        /\ cpd_end_last' = r.cpd_end_last
                        /\ IF r.oob >= 0
                           THEN WalkOob(r.oob) /\ UNCHANGED <<p_end_last, walked>>
                           ELSE /\ p_end_last' = p_end_last + Max(cont, r.cpd_end_last)
                                /\ walked' = Append(walked,
                                                    [at |-> p_end_last, num |-> num,
                                                     added |-> Max(cont, r.cpd_end_last)])
                                /\ UNCHANGED <<pc, err_stor, exit_code>>
       ELSE /\ pc' = "walk_align"
            /\ UNCHANGED <<p_end_last, p_end_last_cont, cpd_offset_last, cpd_end_last, walked,
                           err_stor, exit_code, walk_turn>>
    /\ UNCHANGED <<eng_fw_end, man_num, mod_start, mod_size_all>>
    /\ UNCHANGED walkRest

\* mod_align = p_end_last % 0x1000 and eng_fw_end, after the walks
WalkAlign ==
    /\ pc = "walk_align"
    /\ eng_fw_end' = IF p_end_last % Page > 0 THEN p_end_last + Page - (p_end_last % Page)
                     ELSE p_end_last
    /\ pc' = "walk_done"
    /\ UNCHANGED <<err_stor, exit_code, p_end_last, man_num, mod_start, mod_size_all,
                   walkLocals>>
    /\ UNCHANGED walkRest

\* ---- the images: up to two uncharted partitions after the last $FPT entry ----
\* p_end_last after the $FPT entries, the room a partition is given
WalkBase == 256
PartLen == 1280

ManifestVen(tag, n, ven) ==
    Zeros(4) \o Word(HeaderWords) \o Zeros(8) \o Word(ven) \o Zeros(8) \o tag \o Word(n)
        \o Zeros(608)

\* a partition of ME 8: manifest, one $MME, padding, $MCP. With "mcp" the
\* $MCP gives the room of the partition, with "mcp0" a code of size 0 at 0,
\* with "nomcp" the $MCP tag is missing, with "ven" the vendor is not 0x8086
Mn2Kinds == {"mcp", "mcp0", "nomcp", "ven"}

Mn2Part(kind) ==
    ManifestVen(TagMN2, 1, IF kind = "ven" THEN 1 ELSE VenIntel) \o Zeros(12) \o Zeros(192)
        \o (IF kind = "nomcp" THEN Zeros(4) ELSE TagMCP) \o Word(17)
        \o (IF kind = "mcp" THEN Word(256) \o Word(1024) ELSE Zeros(8)) \o Zeros(52)

\* a partition of SPS 1: manifest and its $MME headers, whose sizes end the
\* partition at its room; without modules; with a module of another tag
ManKinds == {"two", "one", "none", "badmme"}

ManPart(kind) ==
    CASE kind = "two" -> ManifestVen(TagMAN, 2, VenIntel) \o Zeros(12)
                         \o OldHeader(200) \o OldHeader(252)
      [] kind = "one" -> ManifestVen(TagMAN, 1, VenIntel) \o Zeros(12) \o OldHeader(532)
      [] kind = "none" -> ManifestVen(TagMAN, 0, VenIntel) \o Zeros(12)
      [] kind = "badmme" -> ManifestVen(TagMAN, 1, VenIntel) \o Zeros(12) \o Zeros(80)

\* a $CPD partition: PartitionSize of its Extension 0x03 and its entries
\* after the .man entry (name, offset, size)
Ext03Info(name, size) == Word(3) \o Word(SizeofCPD_Ext_03) \o name \o Word(size) \o Zeros(72)

NameA == <<97>>
NameB == <<98>>
NameFTPR == <<70, 84, 80, 82>>
NameDNXP == <<68, 78, 88, 80>>

CpdKinds == {"size", "entries", "zero", "even", "order", "name"}

CpdPartSize(kind) ==
    CASE kind \in {"size", "name"} -> PartLen
      [] kind = "zero" -> 0
      [] OTHER -> 10

CpdPartEntries(kind) ==
    CASE kind \in {"size", "name"} -> <<<<NameA, 768, 256>>, <<NameA \o DotMet, 128, 16>>>>
      [] kind = "entries" -> <<<<NameA, 1024, 256>>, <<NameA \o DotMet, 128, 16>>>>
      [] kind = "zero" -> <<<<NameA \o DotMet, 128, 16>>>>
      [] kind = "even" -> <<<<NameA \o DotMet, 128, 16>>, <<NameA, 1024, 256>>>>
      [] kind = "order" -> <<<<NameB, 1024, 16>>, <<NameB \o DotMet, 128, 16>>,
                             <<NameA, 768, 512>>>>

RECURSIVE EntriesBytes(_, _)
EntriesBytes(list, i) ==
    IF i > Len(list) THEN <<>>
    ELSE CpdEntry(list[i][1], Word(list[i][2]), list[i][3]) \o EntriesBytes(list, i + 1)

CpdPart(kind) ==
    CpdHeader(Len(CpdPartEntries(kind)) + 1, 0)
        \o CpdEntry(NameFTPR \o DotMan, Word(128), 16) \o EntriesBytes(CpdPartEntries(kind), 1)
        \o ManifestVen(TagMN2, 0, VenIntel)
        \o Ext03Info(IF kind = "name" THEN NameDNXP ELSE NameFTPR, CpdPartSize(kind))

PartKinds == Mn2Kinds \cup ManKinds \cup CpdKinds

PartBytes(kind) ==
    LET part == IF kind \in Mn2Kinds THEN Mn2Part(kind)
                ELSE IF kind \in ManKinds THEN ManPart(kind)
                ELSE IF kind \in CpdKinds THEN CpdPart(kind)
                ELSE <<>>
    IN  part \o Zeros(PartLen - Len(part))

WalkImage(gap, first, second) ==
    Zeros(WalkBase + gap) \o PartBytes(first) \o PartBytes(second) \o Zeros(SizeofMN2_Manifest)

WalkInit ==
    /\ \E vm \in {<<"ME", 11>>, <<"TXE", 3>>}, gap \in {0, Page}, first \in PartKinds,
          second \in PartKinds \cup {"end"} :
          /\ gap = Page => vm[1] = "TXE"
          /\ variant = vm[1]
          /\ major = vm[2]
          /\ reading = WalkImage(gap, first, second)
    /\ param = [multi |-> FALSE, mass_scan |-> FALSE, print_msg |-> FALSE,
                me11_mod_extr |-> FALSE]
    /\ pc = "charted"
    /\ err_stor = <<>>
    /\ start_fw_start_match = 0 /\ FptLocals
    /\ input_type = "$CPD" /\ input_offset = 0
    /\ ExtLocals
    /\ DriverIdle
    /\ RsaIdle
    /\ ModIdle /\ UnpIdle /\ ScanIdle
    /\ out_dir = {} /\ UfIdle /\ man_match_store = <<>> /\ WalkIdle
    /\ fpt_start = 0 /\ p_offset_last = WalkBase - 64 /\ p_end_last = WalkBase
    /\ eng_fw_end = WalkBase
    /\ man_tag = <<>> /\ man_num = 0 /\ mod_start = 0 /\ mod_size_all = 0
    /\ mod_end = p_max_size /\ mod_end_max = 0 /\ mod_turn = 0

WalkNext ==
    \/ WalkDnxp
    \/ WalkMn2
    \/ WalkMan
    \/ WalkCpd
    \/ WalkAlign

SpecWalk == WalkInit /\ [][WalkNext]_vars

\* C22: a turn of one of the three walks that does not move the end
\* (p_end_last) strictly forward is the last turn of that walk: the walk is
\* left, it does not make another turn from the same end.
C22_WalkStopsWithoutProgress ==
    [][(pc \in {"walk_mn2", "walk_man", "walk_cpd"} /\ p_end_last' <= p_end_last)
          => pc' # pc]_vars

\* PartitionSize of the Extension 0x03 of the directory at cpd
PartitionSizeOf(cpd) ==
    LET mn2_start == cpd + SizeofCPD_Header + U32(reading, cpd + 4) * SizeofCPD_Entry
    IN  U32(reading, mn2_start + U32(reading, mn2_start + 4) * 4 + 12)

\* the greatest offset + size of the entries of the directory at cpd that are
\* no metadata, 0 without such an entry
EntriesEndOf(cpd) ==
    LET ends == {WalkEntryOffset(cpd, e) + WalkEntrySize(cpd, e) :
                    e \in {i \in 0..(U32(reading, cpd + 4) - 1) : ~WalkIsManMet(cpd, i)}}
    IN  IF ends = {} THEN 0 ELSE CHOOSE m \in ends : \A x \in ends : x <= m

\* C23: for every $CPD partition walked, the amount added to the running end
\* is the larger of the PartitionSize of its own Extension 0x03 and the
\* greatest offset + size of its own entries that are no metadata.
C23_AddedIsLargerOfOwnSizes ==
    \A k \in 1..Len(walked) :
        walked[k].added = Max(PartitionSizeOf(walked[k].at), EntriesEndOf(walked[k].at))

(***************************************************************************)
(* The BPDT pass, the $FPT pass and the recovery region of the manifest    *)
(***************************************************************************)
\* what the two passes leave alone
rgnRest == <<source, cur_count, f_open, opened, warn_stor, note_stor, check_dir, oob_at,
             param, imageVars, rsaVars, input_type, input_offset, cpd_offset, cpd_num,
             cpd_valid, cpd_mod_off, cpd_mod_huff, cpd_mod_res, cpd_ext_offset, ext_tag,
             loop_break, cpd_mod_attr, cpd_ext_attr, cpd_ext_names, cpd_ext_hash, read_hi,
             fpt_version, fpt_length, fpt_chk_fail, fpt_chk_calc, modVars, part_files,
             scanVars, out_dir, ufVars, endVars, fpt_step, fpt_num_fail, p_end_last_cont,
             cpd_offset_last, cpd_end_last, walk_turn, walked>>

\* the matches of br'\xAA\x55([\x00\xAA])\x00.\x00\x01\x00'
BpdtMatches ==
    {k \in 0..(Len(reading) - 8) :
        /\ SubSeq(reading, k + 1, k + 2) = <<170, 85>>
        /\ reading[k + 3] \in {0, 170}
        /\ reading[k + 4] = 0
        /\ SubSeq(reading, k + 6, k + 8) = <<0, 1, 0>>}

\* the matches of man_pat, br'\x00\x24\x4D((\x4E\x32)|(\x41\x4E))'
ManMatches == Matches(AnchorMN2, 0, <<>>) \cup Matches(AnchorMAN, 0, <<>>)

\* man_pat.search(reading[lo:hi]): start of the first match in the slice, -1 for None
RgnSearch(lo, hi) ==
    LET win == PySlice(reading, lo, hi)
        hits == {k \in 0..(Len(win) - 5) : SubSeq(win, k + 1, k + 5) \in {AnchorMN2, AnchorMAN}}
    IN  IF hits = {} THEN -1 ELSE CHOOSE k \in hits : \A j \in hits : k <= j

\* "Adjust Manifest Header to Recovery section": the values of man_match and
\* rec_rgn_start after the entry with p_offset and p_size
RecoveryRegion(p_offset, p_size) ==
    LET rgn == start_fw_start_match + p_offset
    IN  IF rgn + p_size < Len(reading) /\ RgnSearch(rgn, rgn + p_size) # -1
        THEN [man_match |-> RgnSearch(rgn, rgn + p_size), rec_rgn_start |-> rgn]
        ELSE [man_match |-> man_match, rec_rgn_start |-> 0]

\* man_match_store, man_match = man_match_ranges[0] and bpdt_matches
RgnScan ==
    /\ pc = "rgn_scan"
    /\ LET found == Ascending(ManMatches)
       IN  /\ man_match_store' = found
           /\ man_match' = IF found = <<>> THEN -1 ELSE found[1]
           /\ pc' = IF found = <<>> THEN "no_man" ELSE "tables"
    /\ bpdt_matches' = Ascending(BpdtMatches)
    /\ UNCHANGED <<ifwi_bpdt, s_bpdt_all, p_names_store, rec_rgn_start, decoded, recorded,
                   err_stor, exit_code, start_fw_start_match, fpt_part_num, entry,
                   start_man_match, fpt_part_all, bpdt_part_all, fpt_num_diff>>
    /\ UNCHANGED rgnRest

\* for ifwi_bpdt in range(len(bpdt_matches)): a table that was decoded as a
\* secondary one is skipped, the header of any other is read
BpdtTable ==
    /\ pc = "tables"
    /\ ifwi_bpdt < Len(bpdt_matches)
    /\ start_fw_start_match' = bpdt_matches[ifwi_bpdt + 1]
    /\ IF \E k \in 1..Len(s_bpdt_all) : s_bpdt_all[k] = bpdt_matches[ifwi_bpdt + 1]
       THEN /\ ifwi_bpdt' = ifwi_bpdt + 1
            /\ UNCHANGED <<pc, err_stor, exit_code, fpt_part_num, entry, decoded>>
       ELSE IF Oob(bpdt_matches[ifwi_bpdt + 1], SizeofBPDT_Header)
       THEN /\ err_stor' = Append(err_stor, <<"out of bounds", bpdt_matches[ifwi_bpdt + 1]>>)
            /\ MeaExit(1)
            /\ UNCHANGED <<ifwi_bpdt, fpt_part_num, entry, decoded>>
       ELSE /\ fpt_part_num' = U16(bpdt_matches[ifwi_bpdt + 1] + 4)
            /\ entry' = 0
            /\ decoded' = Append(decoded, [at |-> bpdt_matches[ifwi_bpdt + 1],
                                           as |-> "primary", depth |-> 0])
            /\ pc' = "bpdt_turns"
            /\ UNCHANGED <<ifwi_bpdt, err_stor, exit_code>>
    /\ UNCHANGED <<bpdt_matches, s_bpdt_all, p_names_store, man_match, rec_rgn_start,
                   recorded, man_match_store, start_man_match, fpt_part_all, bpdt_part_all,
                   fpt_num_diff>>
    /\ UNCHANGED rgnRest

\* the offsets of the entries of the secondary table at s_bpdt that have an
\* offset and a size, in order: one per row of SBpdtRows
RECURSIVE SBpdtFrom(_, _)
SBpdtFrom(s_bpdt, j) ==
    IF j >= U16(s_bpdt + 4) THEN <<>>
    ELSE LET e == s_bpdt + SizeofBPDT_Header + j * SizeofBPDT_Entry
         IN  (IF U32(reading, e + 4) = 0 \/ U32(reading, e + 8) = 0 THEN <<>>
              ELSE <<[table |-> s_bpdt, at |-> e]>>) \o SBpdtFrom(s_bpdt, j + 1)

\* one turn of "for i in range(0, bpdt_part_num)": the entries of a secondary
\* table (Type 5) are recorded and its offset stored; the entry itself is
\* recorded unless it is of Type 5; an entry of Type 2 names a recovery region
BpdtTurn ==
    /\ pc = "bpdt_turns"
    /\ entry < fpt_part_num
    /\ LET e == start_fw_start_match + SizeofBPDT_Header + entry * SizeofBPDT_Entry
           p_type == U16(e)
           p_offset == U32(reading, e + 4)
           p_size == U32(reading, e + 8)
           sec == IF p_type = 5 THEN SBpdtRows(start_fw_start_match + p_offset)
                  ELSE [oob |-> -1, rows |-> <<>>]
           is_own == ~(p_type = 5 \/ p_offset = 0 \/ p_size = 0)
           rgn == IF p_type = 2 THEN RecoveryRegion(p_offset, p_size)
                  ELSE [man_match |-> man_match, rec_rgn_start |-> rec_rgn_start]
       IN  IF Oob(e, SizeofBPDT_Entry) \/ sec.oob # -1
           THEN /\ err_stor' = Append(err_stor, <<"out of bounds",
                                                  IF Oob(e, SizeofBPDT_Entry) THEN e
                                                  ELSE sec.oob>>)
                /\ MeaExit(1)
                /\ UNCHANGED <<entry, bpdt_part_all, recorded, s_bpdt_all, decoded,
                               man_match, rec_rgn_start>>
           ELSE /\ bpdt_part_all' =
                       bpdt_part_all \o (IF param.me11_mod_extr THEN sec.rows ELSE <<>>)
                       \o (IF param.me11_mod_extr /\ is_own
                           THEN <<Part(p_type, start_fw_start_match + p_offset,
                                       start_fw_start_match + p_offset + p_size)>>
                           ELSE <<>>)
                /\ recorded' =
                       recorded
                       \o (IF param.me11_mod_extr /\ p_type = 5
                           THEN SBpdtFrom(start_fw_start_match + p_offset, 0) ELSE <<>>)
                       \o (IF param.me11_mod_extr /\ is_own
                           THEN <<[table |-> start_fw_start_match, at |-> e]>> ELSE <<>>)
                /\ s_bpdt_all' = IF p_type = 5
                                 THEN Append(s_bpdt_all, start_fw_start_match + p_offset)
                                 ELSE s_bpdt_all
                /\ decoded' = IF p_type = 5
                              THEN Append(decoded, [at |-> start_fw_start_match + p_offset,
                                                    as |-> "secondary", depth |-> 1])
                              ELSE decoded
                /\ man_match' = rgn.man_match
                /\ rec_rgn_start' = rgn.rec_rgn_start
                /\ entry' = entry + 1
                /\ UNCHANGED <<pc, err_stor, exit_code>>
    /\ UNCHANGED <<bpdt_matches, ifwi_bpdt, p_names_store, man_match_store, start_man_match,
                   start_fw_start_match, fpt_part_num, fpt_part_all, fpt_num_diff>>
    /\ UNCHANGED rgnRest

\* the entries of the table are done: the next match of the header pattern
BpdtTableEnd ==
    /\ pc = "bpdt_turns"
    /\ entry >= fpt_part_num
    /\ ifwi_bpdt' = ifwi_bpdt + 1
    /\ pc' = "tables"
    /\ UNCHANGED <<bpdt_matches, s_bpdt_all, p_names_store, man_match, rec_rgn_start, decoded,
                   recorded, err_stor, exit_code, start_fw_start_match, fpt_part_num, entry,
                   man_match_store, start_man_match, fpt_part_all, bpdt_part_all,
                   fpt_num_diff>>
    /\ UNCHANGED rgnRest

\* the BPDT pass is over: "if len(fpt_matches)", the first $FPT header and
\* the three bypass loops
FptPass ==
    /\ pc = "tables"
    /\ ifwi_bpdt >= Len(bpdt_matches)
    /\ IF fpt_matches = {}
       THEN /\ pc' = "span"
            /\ UNCHANGED start_fw_start_match
       ELSE /\ start_fw_start_match' =
                   Bypass(Bypass(Bypass(CHOOSE k \in fpt_matches : \A j \in fpt_matches : k <= j,
                                        Stride100), Stride2100), Stride1000)
            /\ pc' = "fpt"
    /\ entry' = 0
    /\ UNCHANGED <<rgnVars, err_stor, exit_code, fpt_part_num, man_match_store,
                   start_man_match, fpt_part_all, bpdt_part_all, fpt_num_diff>>
    /\ UNCHANGED rgnRest

NameCODE == <<67, 79, 68, 69>>
NameRCVY == <<82, 67, 86, 89>>
NameIGRT == <<73, 71, 82, 84>>
NameNone == <<45, 45, 45, 45>>

\* p_name after "if p_name in [b'\xFF\xFF\xFF\xFF', b'']": '----' for a
\* missing name and for b'\xE0\x15', the decoded text otherwise
FptNameText(raw) ==
    IF raw \in {NameFF, <<>>, <<224, 21>>} THEN NameNone ELSE DecodeIgnore(raw)

\* one turn of "for i in range(0, fpt_part_num)": the entry is recorded with
\* -unp86, an entry without a name is counted, the name is stored, and an
\* entry named CODE (with no RCVY so far), RCVY, FTPR or IGRT names a
\* recovery region
FptRgnTurn ==
    /\ pc = "fpt_entries"
    /\ entry < fpt_part_num
    /\ LET fpt_at == start_fw_start_match + SizeofFPT_Header + entry * SizeofFPT_Entry
           raw == CharField(PySlice(reading, fpt_at, fpt_at + 4))
           p_name == FptNameText(raw)
           p_offset == U32(reading, fpt_at + 8)
           p_size == U32(reading, fpt_at + 12)
           fpt_start_unp == start_fw_start_match - 16 + p_offset
           with_id == param.me11_mod_extr /\ raw \in {TextWCOD, <<76, 79, 67, 76>>}
           mn2_start == fpt_start_unp + SizeofCPD_Header
                        + U32(reading, fpt_start_unp + 4) * SizeofCPD_Entry
           oob == IF Oob(fpt_at, SizeofFPT_Entry) THEN fpt_at
                  ELSE IF with_id /\ Oob(fpt_start_unp, SizeofCPD_Header) THEN fpt_start_unp
                  ELSE IF with_id /\ Oob(mn2_start, SizeofMN2_Manifest) THEN mn2_start
                  ELSE -1
           names == Append(p_names_store, p_name)
           rgn == IF \/ p_name = NameCODE /\ \A k \in 1..Len(names) : names[k] # NameRCVY
                     \/ p_name \in {NameRCVY, TextFTPR, NameIGRT}
                  THEN RecoveryRegion(p_offset, p_size)
                  ELSE [man_match |-> man_match, rec_rgn_start |-> rec_rgn_start]
       IN  IF oob # -1
           THEN /\ err_stor' = Append(err_stor, <<"out of bounds", oob>>)
                /\ MeaExit(1)
                /\ UNCHANGED <<entry, fpt_part_all, fpt_num_diff, p_names_store, man_match,
                               rec_rgn_start>>
           ELSE /\ fpt_part_all' = IF param.me11_mod_extr
                                   THEN Append(fpt_part_all, Part(raw, fpt_start_unp,
                                                                  fpt_start_unp + p_size))
                                   ELSE fpt_part_all
                /\ fpt_num_diff' = IF raw \in {NameFF, <<>>} THEN fpt_num_diff - 1
                                   ELSE fpt_num_diff
                /\ p_names_store' = names
                /\ man_match' = rgn.man_match
                /\ rec_rgn_start' = rgn.rec_rgn_start
                /\ entry' = entry + 1
                /\ UNCHANGED <<pc, err_stor, exit_code>>
    /\ UNCHANGED <<bpdt_matches, ifwi_bpdt, s_bpdt_all, decoded, recorded, man_match_store,
                   start_man_match, start_fw_start_match, fpt_part_num, bpdt_part_all>>
    /\ UNCHANGED rgnRest

\* the entries of the $FPT are done (the search for more entries and the
\* check of their number leave the manifest alone)
FptRgnEnd ==
    /\ pc = "fpt_entries"
    /\ entry >= fpt_part_num
    /\ pc' = "span"
    /\ UNCHANGED <<rgnVars, err_stor, exit_code, start_fw_start_match, fpt_part_num, entry,
                   man_match_store, start_man_match, fpt_part_all, bpdt_part_all,
                   fpt_num_diff>>
    /\ UNCHANGED rgnRest

\* (start_man_match, end_man_match) = man_match.span();
\* start_man_match += rec_rgn_start
RgnSpan ==
    /\ pc = "span"
    /\ start_man_match' = man_match + rec_rgn_start
    /\ pc' = "anchored"
    /\ UNCHANGED <<rgnVars, err_stor, exit_code, start_fw_start_match, fpt_part_num, entry,
                   man_match_store, fpt_part_all, bpdt_part_all, fpt_num_diff>>
    /\ UNCHANGED rgnRest

\* ---- the images: a BPDT or a $FPT, a second BPDT, manifests ----
RgnLen == 320
RgnTableLen == 112
RgnSecondAt == 64
RgnOffsets == {0, 64, 128, 192}
RgnSizes == {64, 4096}
RgnTypes == {1, 2, 5}
RgnNames == {NameCODE, NameRCVY, TextFTPR}
\* where the manifests are, after the tables
RgnAnchors == {<<120>>, <<136>>, <<120, 136>>, <<136, 200>>}
\* the entry of the second table, <<>> if the image has none
RgnSeconds == {<<>>, <<2, 128, 64>>, <<5, 64, 64>>}

RECURSIVE AnchorsFrom(_, _)
AnchorsFrom(at, anchors) ==
    IF anchors = <<>> THEN Zeros(RgnLen - at)
    ELSE Zeros(Head(anchors) - at) \o AnchorMN2 \o AnchorsFrom(Head(anchors) + 5, Tail(anchors))

RgnBpdtTable(parts, sec) ==
    LET first == BpdtHeaderBytes(Len(parts))
                 \o (IF Len(parts) >= 1
                     THEN BpdtEntryBytes(parts[1][1], parts[1][2], parts[1][3]) ELSE <<>>)
                 \o (IF Len(parts) >= 2
                     THEN BpdtEntryBytes(parts[2][1], parts[2][2], parts[2][3]) ELSE <<>>)
        second == IF sec = <<>> THEN <<>>
                  ELSE BpdtHeaderBytes(1) \o BpdtEntryBytes(sec[1], sec[2], sec[3])
    IN  first \o Zeros(RgnSecondAt - Len(first)) \o second
            \o Zeros(RgnTableLen - RgnSecondAt - Len(second))

RgnFptTable(parts) ==
    LET table == Zeros(16) \o FptHeaderBytes(Len(parts), 32, 48, 0)
                 \o (IF Len(parts) >= 1 THEN FptPartBytes(parts[1][1], parts[1][2], parts[1][3])
                     ELSE <<>>)
                 \o (IF Len(parts) >= 2 THEN FptPartBytes(parts[2][1], parts[2][2], parts[2][3])
                     ELSE <<>>)
    IN  table \o [k \in 1..(RgnTableLen - Len(table)) |-> 255]

RgnInit ==
    /\ \E anchors \in RgnAnchors :
          \/ \E n \in 1..MaxPartitions :
                \E parts \in [1..n -> RgnTypes \X RgnOffsets \X RgnSizes], sec \in RgnSeconds :
                    reading = RgnBpdtTable(parts, sec) \o AnchorsFrom(RgnTableLen, anchors)
          \/ \E n \in 1..MaxPartitions :
                \E parts \in [1..n -> RgnNames \X RgnOffsets \X RgnSizes] :
                    reading = RgnFptTable(parts) \o AnchorsFrom(RgnTableLen, anchors)
    /\ param = [multi |-> FALSE, mass_scan |-> FALSE, print_msg |-> FALSE,
                me11_mod_extr |-> TRUE]
    /\ variant = "ME"
    /\ major = 11
    /\ pc = "rgn_scan"
    /\ err_stor = <<>>
    /\ FptIdle
    /\ CpdIdle
    /\ DriverIdle
    /\ RsaIdle
    /\ AuxIdle

RgnNext ==
    \/ RgnScan
    \/ BpdtTable
    \/ BpdtTurn
    \/ BpdtTableEnd
    \/ FptPass
    \/ FptHeader
    \/ FptRgnTurn
    \/ FptRgnEnd
    \/ RgnSpan

SpecRgn == RgnInit /\ [][RgnNext]_vars

\* ---- the entry of the turn to come, as the claims speak of it ----
TurnAt ==
    IF pc = "bpdt_turns"
    THEN start_fw_start_match + SizeofBPDT_Header + entry * SizeofBPDT_Entry
    ELSE start_fw_start_match + SizeofFPT_Header + entry * SizeofFPT_Entry

\* the turn to come decodes an entry that names a recovery region
TurnCandidate ==
    /\ entry < fpt_part_num
    /\ \/ /\ pc = "bpdt_turns"
          /\ ~Oob(TurnAt, SizeofBPDT_Entry)
          /\ U16(TurnAt) = 2
       \/ /\ pc = "fpt_entries"
          /\ ~Oob(TurnAt, SizeofFPT_Entry)
          /\ LET p_name == FptNameText(CharField(PySlice(reading, TurnAt, TurnAt + 4)))
             IN  \/ p_name \in {NameRCVY, TextFTPR, NameIGRT}
                 \/ /\ p_name = NameCODE
                    /\ \A k \in 1..Len(p_names_store) : p_names_store[k] # NameRCVY

TurnRegion ==
    start_fw_start_match + U32(reading, TurnAt + (IF pc = "bpdt_turns" THEN 4 ELSE 8))

TurnSize == U32(reading, TurnAt + (IF pc = "bpdt_turns" THEN 8 ELSE 12))

\* the region is not wholly inside the image or holds no manifest tag
TurnFails ==
    \/ TurnRegion + TurnSize >= Len(reading)
    \/ RgnSearch(TurnRegion, TurnRegion + TurnSize) = -1

\* C24: once the entries of the BPDT and of the $FPT are done, the anchor
\* man_match + rec_rgn_start is the offset of a manifest tag of the image;
\* and a turn whose recovery region fails its check (not wholly inside the
\* image, or no manifest tag in it) leaves man_match + rec_rgn_start as it
\* was, also when an earlier entry moved the anchor into its region.
C24_AnchorIsManifestTag ==
    /\ [](pc = "anchored" => start_man_match \in ManMatches)
    /\ [][(TurnCandidate /\ TurnFails) =>
              man_match' + rec_rgn_start' = man_match + rec_rgn_start]_vars

\* the offsets of the tables decoded as secondary ones so far
SecondaryTables == {decoded[k].at : k \in {i \in 1..Len(decoded) : decoded[i].as = "secondary"}}

\* C25: in the BPDT pass a table decoded as a secondary one (reached through
\* an entry of Type 5) is not decoded as a primary one afterwards; a
\* secondary table is reached from a primary one only, the Type 5 entries of
\* a secondary table are not followed; and every entry of a secondary table
\* has one row in bpdt_part_all at most.
C25_SecondaryTableOnce ==
    /\ \A i, j \in 1..Len(decoded) :
          (i < j /\ decoded[i].as = "secondary" /\ decoded[j].as = "primary")
              => decoded[j].at # decoded[i].at
    /\ \A i \in 1..Len(decoded) : decoded[i].depth <= 1
    /\ \A i \in 1..Len(recorded) :
          recorded[i].table \in SecondaryTables
              => Cardinality({j \in 1..Len(recorded) : recorded[j].at = recorded[i].at}) = 1

(***************************************************************************)
(* IBBP: one metadata entry for the modules IBBL, IBB and OBB              *)
(***************************************************************************)
NameBpmMet == <<66, 80, 77, 46, 109, 101, 116>>
NameData == <<120>>
IbbpModLen == 8

\* CPD_Header of an IBBP directory of n entries
IbbpHeader(n) == TagCPD \o Word(n) \o <<1, 1, 16, 0>> \o NameIBBP

\* CPD_Ext_13 whose three hashes are SHA-256 values that start with 1, 2, 3
Ext13 ==
    LET hash(h) == Word(2) \o Word(32) \o <<h>> \o Zeros(31)
    IN  Word(19) \o Word(180) \o Word(0) \o hash(1) \o hash(2) \o hash(3) \o Zeros(48)

\* the entries after or before BPM.met: the modules of names, each of
\* IbbpModLen bytes, from the offset at
RECURSIVE IbbpEntries(_, _)
IbbpEntries(names, at) ==
    IF names = <<>> THEN <<>>
    ELSE CpdEntry(Head(names), Word(at), IbbpModLen) \o IbbpEntries(Tail(names), at + IbbpModLen)

\* the directory: header, entries (BPM.met first or last), Extension, modules
IbbpImage(names, met_first) ==
    LET n == Len(names) + 1
        base == SizeofCPD_Header + n * SizeofCPD_Entry
        met == CpdEntry(NameBpmMet, Word(base), Len(Ext13))
        mods == IbbpEntries(names, base + Len(Ext13))
    IN  IbbpHeader(n) \o (IF met_first THEN met \o mods ELSE mods \o met)
            \o Ext13 \o [k \in 1..(IbbpModLen * Len(names)) |-> 7]

\* the modules a directory holds: any of the three, and a module of data
IbbpNames(ibbl, ibb, obb, data) ==
    (IF ibbl THEN <<NameIBBL>> ELSE <<>>) \o (IF ibb THEN <<NameIBB>> ELSE <<>>)
        \o (IF obb THEN <<NameOBB>> ELSE <<>>) \o (IF data THEN <<NameData>> ELSE <<>>)

IbbpInit ==
    /\ \E ibbl \in BOOLEAN, ibb \in BOOLEAN, obb \in BOOLEAN, data \in BOOLEAN,
          met_first \in BOOLEAN :
          reading = IbbpImage(IbbpNames(ibbl, ibb, obb, data), met_first)
    /\ input_type = "$CPD"
    /\ input_offset = 0
    /\ param = [multi |-> FALSE, mass_scan |-> FALSE, print_msg |-> FALSE,
                me11_mod_extr |-> FALSE]
    /\ variant = "ME"
    /\ major = 11
    /\ pc = "ext_start"
    /\ err_stor = <<>>
    /\ ExtLocals
    /\ DriverIdle
    /\ RsaIdle
    /\ FptIdle
    /\ AuxIdle

IbbpNext ==
    \/ ExtStart
    \/ ExtEntry
    \/ ExtLoop
    \/ ExtMetaDone
    \/ ExtModule
    \/ ExtReturn

SpecIbbp == IbbpInit /\ [][IbbpNext]_vars

\* the directory has an entry of that name
HasEntry(name) == \E e \in 0..(cpd_num - 1) : cpd_entry_name(e) = name

\* cpd_mod_attr has a row of that name
HasModRow(name) == \E k \in 1..Len(cpd_mod_attr) : cpd_mod_attr[k].name = name

\* C26: ext_anl returns for every IBBP directory whose metadata declares the
\* hashes of IBBL, IBB and OBB, and the catalog it returns has a row for a
\* module of the three exactly when the directory has an entry of that name.
C26_IbbpRowsMatchEntries ==
    /\ pc # "crashed"
    /\ pc = "ext_ret" => \A k \in 1..3 : HasModRow(ibbp_bpm[k]) <=> HasEntry(ibbp_bpm[k])

(***************************************************************************)
(* Metadata entries with several Extensions                                *)
(***************************************************************************)
\* CPD_Ext_0A with the given Size, Compression and Encryption
MetaExt0A(declared, comp, encr) ==
    Word(10) \o Word(declared) \o <<comp, encr, 0, 0>> \o Word(8) \o Word(8) \o Zeros(4)
        \o <<5>> \o Zeros(31)

\* CPD_Ext_10: Tag, Size, ..., SizeUncomp, ..., Hash
Ext10 == Word(16) \o Word(96) \o Zeros(24) \o Word(8) \o Zeros(4) \o <<6>> \o Zeros(55)

\* the Extensions a metadata entry is made of: 0x0A with the given bytes of
\* Compression and Encryption, 0x0A with a declared Size of 0, 0x10, 0x13
MetaKinds == {<<"0A", 0, 0>>, <<"0A", 2, 1>>, <<"0A", 3, 0>>, <<"0A", 0, 2>>,
              <<"zero", 0, 0>>, <<"10", 0, 0>>, <<"13", 0, 0>>}

MetaRecord(kind) ==
    CASE kind[1] = "0A" -> MetaExt0A(56, kind[2], kind[3])
      [] kind[1] = "zero" -> MetaExt0A(0, 0, 0)
      [] kind[1] = "10" -> Ext10
      [] OTHER -> Ext13

MaxRecords == 2

\* the directory: a.met, made of the Extensions of kinds, and the module a
MetaImage(kinds) ==
    LET first == MetaRecord(kinds[1])
        stream == IF Len(kinds) > 1 THEN first \o MetaRecord(kinds[2]) ELSE first
        base == SizeofCPD_Header + 2 * SizeofCPD_Entry
    IN  CpdHeader(2, 0)
            \o CpdEntry(NameAMet, Word(base), Len(stream))
            \o CpdEntry(<<97>>, Word(base + Len(stream)), IbbpModLen)
            \o stream \o [k \in 1..IbbpModLen |-> 7]

MetaInit ==
    /\ \E n \in 1..MaxRecords : \E kinds \in [1..n -> MetaKinds] : reading = MetaImage(kinds)
    /\ input_type = "$CPD"
    /\ input_offset = 0
    /\ param = [multi |-> FALSE, mass_scan |-> FALSE, print_msg |-> FALSE,
                me11_mod_extr |-> FALSE]
    /\ variant = "ME"
    /\ major = 11
    /\ pc = "ext_start"
    /\ err_stor = <<>>
    /\ ExtLocals
    /\ DriverIdle
    /\ RsaIdle
    /\ FptIdle
    /\ AuxIdle

\* ext_anl, then the first lines of mod_anl on the rows it returned
MetaNext ==
    \/ ExtStart
    \/ ExtEntry
    \/ ExtLoop
    \/ ExtMetaDone
    \/ ExtModule
    \/ ExtReturn
    \/ ModStart

SpecMeta == MetaInit /\ [][MetaNext]_vars

\* C27: every row ext_anl returns has a compression of 0, 1 or 2 and an
\* encryption of 0 or 1, whatever the bytes of Extension 0x0A, and the
\* lookups mod_anl makes with them (comp[...], encr_empty[...]) are defined.
C27_RowKindsInRange ==
    /\ pc = "ext_ret" =>
           \A k \in 1..Len(cpd_mod_attr) :
               cpd_mod_attr[k].comp \in 0..2 /\ cpd_mod_attr[k].encr \in 0..1
    /\ pc # "crashed"

\* C28: the catalog ext_anl returns for a directory has one row at most for
\* each module name, whatever the Extensions of its metadata entries.
C28_OneRowPerModule ==
    pc = "ext_ret" =>
        \A i, j \in 1..Len(cpd_mod_attr) :
            cpd_mod_attr[i].name = cpd_mod_attr[j].name => i = j

\* C29: when ext_anl returns, each .man and .met entry of the directory has
\* exactly one row in cpd_ext_attr and its name without the suffix is in
\* cpd_ext_names, also when the loop over its Extensions was ended by the
\* cap of 100 turns.
C29_MetadataRowPerEntry ==
    pc = "ext_ret" =>
        \A e \in 0..(cpd_num - 1) :
            IsManMet(e) =>
                /\ Cardinality({k \in 1..Len(cpd_ext_attr) :
                                   cpd_ext_attr[k].name = cpd_entry_name(e)}) = 1
                /\ \E k \in 1..Len(cpd_ext_names) :
                       cpd_ext_names[k] = PySlice(cpd_entry_name(e), 0, -4)

(***************************************************************************)
(* The input file of each image: opened, closed                            *)
(***************************************************************************)
\* -dbname: the messages recorded so far, f.close(), os.rename, next input
GiveDbName ==
    /\ pc = "analysed"
    /\ ~source[cur_count].me1
    /\ ~param.me11_mod_extr
    /\ give_db_name
    /\ err_stor' = IF source[cur_count].msgs THEN Append(err_stor, "invalid signature")
                   ELSE err_stor
    /\ f_open' = f_open \ {cur_count}
    /\ pc' = "next"
    /\ UNCHANGED <<source, param, cur_count, opened, warn_stor, note_stor, check_dir,
                   exit_code, oob_at>>
    /\ UNCHANGED batchRest

CloseParams ==
    [multi : BOOLEAN, mass_scan : {TRUE}, print_msg : {FALSE}, me11_mod_extr : BOOLEAN,
     give_db_name : BOOLEAN]

CloseInit ==
    /\ \E n \in 1..MaxChecked : source \in [1..n -> CheckInputs]
    /\ param \in CloseParams
    /\ cur_count = 0
    /\ pc = "next"
    /\ f_open = {}
    /\ opened = {}
    /\ err_stor = <<>>
    /\ warn_stor = <<>>
    /\ note_stor = <<>>
    /\ check_dir = {}
    /\ exit_code = -1
    /\ oob_at = 0
    /\ ImageIdle
    /\ RsaIdle
    /\ CpdIdle
    /\ FptIdle
    /\ AuxIdle

CloseNext ==
    \/ OpenFile
    \/ NoManifest
    \/ FalseAnchor
    \/ ReadManifest
    \/ GetStructFail
    \/ Amt1x
    \/ Unpack86
    \/ GiveDbName
    \/ Finish
    \/ EndOfSource
    \/ PressEnter

SpecClose == CloseInit /\ [][CloseNext]_vars

\* C30: a step that opens the file of an image finds the file of every
\* earlier image closed, whatever the path that ended the analysis of that
\* image (no manifest with or without -check, vendor ID not valid, AMT 1.x,
\* -unp86, -dbname, normal end).
C30_ClosedBeforeNextOpen ==
    [][opened' # opened => f_open = {}]_vars
====
